---------------------------- MODULE Spec2Model ----------------------------
(***************************************************************************)
(* Visualization bridge of the Olist data analyzer: the chart renderers    *)
(* and the artifact store of agent/visualization_tools.py, and the         *)
(* consumer of the [VIZ:filename] references in app.py.                     *)
(*                                                                         *)
(* Texts and paths are sequences of one-character strings, so that the     *)
(* regular expression, os.path.join, os.path.abspath and the slicing of    *)
(* the uuid act on characters as they do in the program.                   *)
(***************************************************************************)
EXTENDS Integers, Sequences, FiniteSets, TLC

VARIABLES
    fs,               \* the file system: normalized absolute path -> content
    figures,          \* matplotlib's registry of open figures (their number)
    calls,            \* render calls made so far (numbers the image contents)
    last,             \* the last render call: its request and how it ended
    messages,         \* st.session_state.messages
    session_id,       \* st.session_state.session_id (<< >>: not set yet)
    user_id,          \* st.session_state.user_id (<< >>: not set yet)
    session_created,  \* st.session_state.session_created
    screen,           \* what the last script run of the UI displayed
    posted,           \* the HTTP requests the UI has sent to the agent API
    payload,          \* the argument of the last call of _parse_data
    returned,         \* what that call returned or raised
    pyplot,           \* pyplot's state: its figures and the current one
    inflight,         \* the render calls in progress: thread -> its position
    toolcall,         \* a tool call of the agent: the renderer and its arguments
    chart,            \* what the body of that renderer has put on its axes
    run_response,     \* response.json() of a POST to /run
    assembled         \* full_response as assembled from it, and its display

vars == <<fs, figures, calls, last, messages, session_id, user_id,
          session_created, screen, posted, payload, returned, pyplot,
          inflight, toolcall, chart, run_response, assembled>>

renderVars == <<fs, figures, calls, last>>
parseVars == <<payload, returned>>
plotVars == <<pyplot, inflight>>
drawVars == <<toolcall, chart>>
textVars == <<run_response, assembled>>
toolVars == <<renderVars, parseVars, plotVars, drawVars, textVars>>
uiVars == <<messages, session_id, user_id, session_created, screen, posted>>

(***************************************************************************)
(* Bounds of the model.                                                    *)
(***************************************************************************)
MaxRows == 1
MaxCalls == 2
MaxPieces == 3
MaxTurns == 1
MaxTokens == 3
MaxFormRows == 2
MaxChartRows == 2

(***************************************************************************)
(* Characters.                                                             *)
(***************************************************************************)
Lower == {"a","b","c","d","e","f","g","h","i","j","k","l","m",
          "n","o","p","q","r","s","t","u","v","w","x","y","z"}
Upper == {"A","B","C","D","E","F","G","H","I","J","K","L","M",
          "N","O","P","Q","R","S","T","U","V","W","X","Y","Z"}
Digit == {"0","1","2","3","4","5","6","7","8","9"}
HexDigit == Digit \cup {"a","b","c","d","e","f"}
Whitespace == {" ", "\n", "\t"}

\* Whether lit occurs in s at index i.
StartsAt(s, i, lit) ==
    /\ i >= 1
    /\ i + Len(lit) - 1 <= Len(s)
    /\ SubSeq(s, i, i + Len(lit) - 1) = lit

\* str.strip() of s is non-empty
StripNonEmpty(s) == \E i \in 1..Len(s) : s[i] \notin Whitespace

(***************************************************************************)
(* viz_pattern = r'\[VIZ:([a-zA-Z0-9_]+\.png)\]'                            *)
(***************************************************************************)
\* The character class [A-Za-z0-9_/.] of a widened pattern.
WideClass == Lower \cup Upper \cup Digit \cup {"_", "/", "."}

\* The character class [a-zA-Z0-9_] of viz_pattern.
NameClass == Lower \cup Upper \cup Digit \cup {"_"}

TagOpen == <<"[", "V", "I", "Z", ":">>
TagClose == <<".", "p", "n", "g", "]">>

\* The number of characters of the class that s holds from index i on.
RECURSIVE ClassRun(_, _)
ClassRun(s, i) ==
    IF i <= Len(s) /\ s[i] \in NameClass THEN 1 + ClassRun(s, i + 1) ELSE 0

\* The index after the match of viz_pattern that starts at i, 0 when the
\* pattern does not match at i. The + is greedy and gives characters back
\* until the rest of the pattern matches.
MatchEnd(s, i) ==
    IF ~StartsAt(s, i, TagOpen) THEN 0
    ELSE LET from == i + Len(TagOpen)
             ks == {k \in 1..ClassRun(s, from) : StartsAt(s, from + k, TagClose)}
         IN  IF ks = {} THEN 0
             ELSE (from + CHOOSE k \in ks : \A j \in ks : j <= k) + Len(TagClose)

\* The group of the match that starts at i and ends before e.
Group(s, i, e) == SubSeq(s, i + Len(TagOpen), e - 2)

\* The spans <<start, end>> of the matches, first to last, not overlapping:
\* after a match the scan goes on behind it.
RECURSIVE MatchesFrom(_, _)
MatchesFrom(s, i) ==
    IF i > Len(s) THEN << >>
    ELSE LET e == MatchEnd(s, i)
         IN  IF e > 0 THEN << <<i, e>> >> \o MatchesFrom(s, e)
             ELSE MatchesFrom(s, i + 1)

Matches(s) == MatchesFrom(s, 1)

\* q with each of its elements kept once, at its first place.
RECURSIVE Dedup(_)
Dedup(q) ==
    IF q = << >> THEN << >>
    ELSE LET r == Dedup(SubSeq(q, 1, Len(q) - 1))
         IN  IF \E k \in 1..Len(r) : r[k] = q[Len(q)] THEN r
             ELSE Append(r, q[Len(q)])

\* A findall that keeps each captured name once.
FindAllOnce(s) ==
    LET ms == Matches(s)
    IN  Dedup([k \in 1..Len(ms) |-> Group(s, ms[k][1], ms[k][2])])

\* re.findall(viz_pattern, s): the groups of the matches, in text order.
FindAll(s) ==
    LET ms == Matches(s)
    IN  [k \in 1..Len(ms) |-> Group(s, ms[k][1], ms[k][2])]

\* Whether index i of s lies in one of the spans.
Covered(ms, i) == \E k \in 1..Len(ms) : ms[k][1] <= i /\ i < ms[k][2]

RECURSIVE KeepFrom(_, _, _)
KeepFrom(s, ms, i) ==
    IF i > Len(s) THEN << >>
    ELSE (IF Covered(ms, i) THEN << >> ELSE <<s[i]>>) \o KeepFrom(s, ms, i + 1)

\* The spans of the pattern \[VIZ:[^\]]*\], which accepts any name.
RECURSIVE LooseFrom(_, _)
LooseFrom(s, i) ==
    IF i > Len(s) THEN << >>
    ELSE LET closes == {j \in (i + Len(TagOpen))..Len(s) : s[j] = "]"}
         IN  IF StartsAt(s, i, TagOpen) /\ closes # {}
             THEN LET j == CHOOSE j \in closes : \A m \in closes : j <= m
                  IN  << <<i, j + 1>> >> \o LooseFrom(s, j + 1)
             ELSE LooseFrom(s, i + 1)

\* A sub with that pattern.
SubAnyTag(s) == KeepFrom(s, LooseFrom(s, 1), 1)

\* re.sub(viz_pattern, '', s): s without its matches.
Sub(s) == KeepFrom(s, Matches(s), 1)

(***************************************************************************)
(* Paths (posixpath).                                                      *)
(***************************************************************************)
\* The last index of s that holds c, 0 when there is none.
LastIndexOf(s, c) ==
    LET is == {i \in 1..Len(s) : s[i] = c}
    IN  IF is = {} THEN 0 ELSE CHOOSE i \in is : \A j \in is : j <= i

\* os.path.join(a, b): an absolute b replaces a.
PathJoin(a, b) ==
    IF b # << >> /\ b[1] = "/" THEN b
    ELSE IF a = << >> \/ a[Len(a)] = "/" THEN a \o b
    ELSE a \o <<"/">> \o b

\* os.path.basename(p): what follows the last separator.
Basename(p) == SubSeq(p, LastIndexOf(p, "/") + 1, Len(p))

RECURSIVE RStripSlash(_)
RStripSlash(s) ==
    IF s # << >> /\ s[Len(s)] = "/" THEN RStripSlash(SubSeq(s, 1, Len(s) - 1))
    ELSE s

\* os.path.dirname(p): the head up to the last separator, without trailing
\* separators unless it is made of separators only.
Dirname(p) ==
    LET head == SubSeq(p, 1, LastIndexOf(p, "/"))
    IN  IF RStripSlash(head) = << >> THEN head ELSE RStripSlash(head)

\* The components of p between its separators.
RECURSIVE Components(_, _, _)
Components(p, i, cur) ==
    IF i > Len(p) THEN <<cur>>
    ELSE IF p[i] = "/" THEN <<cur>> \o Components(p, i + 1, << >>)
    ELSE Components(p, i + 1, Append(cur, p[i]))

\* normpath's pass over the components of an absolute path: empty and "."
\* components are dropped, ".." drops the component before it.
RECURSIVE Collapse(_, _)
Collapse(comps, acc) ==
    IF comps = << >> THEN acc
    ELSE LET c == Head(comps)
         IN  IF c = << >> \/ c = <<".">> THEN Collapse(Tail(comps), acc)
             ELSE IF c = <<".", ".">>
                  THEN Collapse(Tail(comps),
                                IF acc = << >> THEN acc
                                ELSE SubSeq(acc, 1, Len(acc) - 1))
             ELSE Collapse(Tail(comps), Append(acc, c))

RECURSIVE Slashed(_)
Slashed(comps) ==
    IF comps = << >> THEN << >>
    ELSE <<"/">> \o Head(comps) \o Slashed(Tail(comps))

\* os.path.abspath(p) of an absolute path p: os.path.normpath(p). It is also
\* the file the system opens for p (the tree holds no symbolic links).
Abspath(p) ==
    LET comps == Collapse(Components(p, 1, << >>), << >>)
    IN  IF comps = << >> THEN <<"/">> ELSE Slashed(comps)

\* __file__ of agent/visualization_tools.py and of app.py.
ToolsFile == <<"/", "r", "/", "a", "g", "e", "n", "t", "/", "v", "i", "s", "u",
               "a", "l", "i", "z", "a", "t", "i", "o", "n", "_", "t", "o", "o",
               "l", "s", ".", "p", "y">>
AppFile == <<"/", "r", "/", "a", "p", "p", ".", "p", "y">>
VizOutputs == <<"v", "i", "z", "_", "o", "u", "t", "p", "u", "t", "s">>

\* os.path.join(os.path.dirname(__file__), 'viz_outputs'): a directory beside
\* the tools' file.
OutputDirBesideTools == PathJoin(Dirname(ToolsFile), VizOutputs)

\* OUTPUT_DIR = os.path.join(os.path.dirname(__file__), '..', 'viz_outputs')
OUTPUT_DIR == PathJoin(PathJoin(Dirname(ToolsFile), <<".", ".">>), VizOutputs)

\* VIZ_DIR = os.path.join(os.path.dirname(__file__), "viz_outputs")
VIZ_DIR == PathJoin(Dirname(AppFile), VizOutputs)

\* os.path.exists(p) on the file system f.
Exists(f, p) == Abspath(p) \in DOMAIN f

(***************************************************************************)
(* The consumer: how app.py displays one message.                          *)
(***************************************************************************)
NotFoundReplay == <<"V", "i", "s", "u", "a", "l", "i", "z", "a", "t", "i", "o",
                    "n", " ", "n", "o", "t", " ", "f", "o", "u", "n", "d", ":",
                    " ">>
NotFoundLive == <<"V", "i", "s", "u", "a", "l", "i", "z", "a", "t", "i", "o",
                  "n", " ", "f", "i", "l", "e", " ", "n", "o", "t", " ", "f",
                  "o", "u", "n", "d", ":", " ">>

\* One displayed element. text is what it shows; path is the file an image
\* shows, or the file whose existence was tested before a notice.
Block(kind, text, path) == [kind |-> kind, text |-> text, path |-> path]

Markdown(text) == Block("markdown", text, << >>)

\* The loop over viz_matches that stops at the first missing file.
RECURSIVE ImagesUntilMissing(_, _, _)
ImagesUntilMissing(f, names, notice) ==
    IF names = << >> THEN << >>
    ELSE LET filepath == PathJoin(VIZ_DIR, Head(names))
         IN  IF Exists(f, filepath)
             THEN <<Block("image", << >>, filepath)>>
                  \o ImagesUntilMissing(f, Tail(names), notice)
             ELSE << >>

\* The loop over viz_matches: st.image of an existing file, else the notice
\* (st.warning in the history, st.error in the live response) with the name.
ImageBlocks(f, names, notice) ==
    [k \in 1..Len(names) |->
        LET filepath == PathJoin(VIZ_DIR, names[k])
        IN  IF Exists(f, filepath)
            THEN Block("image", << >>, filepath)
            ELSE Block(IF notice = NotFoundReplay THEN "warning" ELSE "error",
                       notice \o names[k], filepath)]

\* A history that shows the text of a message and none of its images.
ReplayTextOnly(f, content) == <<Markdown(Sub(content))>>

\* The history loop's body (lines 82-103) on one stored message.
ReplayBlocks(f, content) ==
    LET viz_matches == FindAll(content)
    IN  IF viz_matches # << >>
        THEN LET text_content == Sub(content)
             IN  (IF StripNonEmpty(text_content)
                  THEN <<Markdown(text_content)>> ELSE << >>)
                 \o ImageBlocks(f, viz_matches, NotFoundReplay)
        ELSE <<Markdown(content)>>

\* The display of the live response (lines 175-195).
LiveBlocks(f, full_response) ==
    LET viz_matches == FindAll(full_response)
    IN  IF viz_matches # << >>
        THEN <<Markdown(Sub(full_response))>>
             \o ImageBlocks(f, viz_matches, NotFoundLive)
        ELSE <<Markdown(full_response)>>

(***************************************************************************)
(* The run response (response.json()) and the text assembled from it.      *)
(***************************************************************************)
JStr(chars) == [t |-> "str", v |-> chars]
JNull == [t |-> "null", v |-> << >>]
JList(items) == [t |-> "list", v |-> items]
JDict(fields) == [t |-> "dict", v |-> fields]

\* No response yet, and nothing assembled.
NoResponse == JNull
NotAssembled == [how |-> "none", text |-> << >>, blocks |-> << >>]

\* Whether text holds lit as a substring (Python's `lit in text`).
Contains(text, lit) == \E i \in 1..Len(text) + 1 : StartsAt(text, i, lit)

TextKey == <<"t", "e", "x", "t">>

\* for part in content['parts']: if 'text' in part: full_response += part['text']
\* from part i on, starting with the text acc. A part that is no dict makes the
\* test or the subscript raise TypeError, and so does a text that is no string.
RECURSIVE PartsText(_, _, _)
PartsText(parts, i, acc) ==
    IF acc.raised \/ i > Len(parts) THEN acc
    ELSE LET part == parts[i]
         IN  IF part.t = "dict"
             THEN IF "text" \in DOMAIN part.v
                  THEN IF part.v.text.t = "str"
                       THEN PartsText(parts, i + 1,
                                      [acc EXCEPT !.text = @ \o part.v.text.v])
                       ELSE [acc EXCEPT !.raised = TRUE]
                  ELSE PartsText(parts, i + 1, acc)
             ELSE IF part.t = "str" /\ ~Contains(part.v, TextKey)
                  THEN PartsText(parts, i + 1, acc)
             ELSE [acc EXCEPT !.raised = TRUE]

\* The loop over content['parts'] for a content that is a dict with 'parts'.
\* Iterating a string yields one-character strings, none of which holds
\* 'text'; iterating null raises TypeError.
ContentText(content, acc) ==
    LET parts == content.v.parts
    IN  IF parts.t = "list" THEN PartsText(parts.v, 1, acc)
        ELSE IF parts.t = "str" THEN acc
        ELSE [acc EXCEPT !.raised = TRUE]

HasParts(content) == content.t = "dict" /\ "parts" \in DOMAIN content.v

RECURSIVE ItemsText(_, _, _)
ItemsText(items, i, acc) ==
    IF acc.raised \/ i > Len(items) THEN acc
    ELSE LET item == items[i]
         IN  IF item.t = "dict" /\ "content" \in DOMAIN item.v
                /\ HasParts(item.v.content)
             THEN ItemsText(items, i + 1, ContentText(item.v.content, acc))
             ELSE ItemsText(items, i + 1, acc)

\* Lines 153-171: full_response as assembled from response_data, or raised.
AssembleText(response_data) ==
    LET empty == [raised |-> FALSE, text |-> << >>]
    IN  IF response_data.t = "list" THEN ItemsText(response_data.v, 1, empty)
        ELSE IF response_data.t = "dict" /\ "content" \in DOMAIN response_data.v
        THEN LET content == response_data.v.content
             IN  IF HasParts(content) THEN ContentText(content, empty)
                 ELSE IF content.t = "str" THEN [empty EXCEPT !.text = content.v]
                 ELSE empty
        ELSE empty

(***************************************************************************)
(* The script runs of app.py.                                              *)
(***************************************************************************)
ErrConnect == <<"#", " ", "E", "r", "r", "o", "r", " ", "c", "o", "n", "n", "e",
                "c", "t", "i", "n", "g", " ", "t", "o", " ", "a", "g", "e", "n",
                "t", ":", " ", "e">>
ErrParse == <<"#", " ", "E", "r", "r", "o", "r", " ", "p", "a", "r", "s", "i",
              "n", "g", " ", "r", "e", "s", "p", "o", "n", "s", "e", ":", " ",
              "e">>
ErrUnexpected == <<"#", " ", "U", "n", "e", "x", "p", "e", "c", "t", "e", "d",
                   " ", "e", "r", "r", "o", "r", ":", " ", "e">>
ErrSession == <<"F", "a", "i", "l", "e", "d", " ", "t", "o", " ", "c", "r", "e",
                "a", "t", "e", " ", "s", "e", "s", "s", "i", "o", "n", ":", " ",
                "e">>
ErrTryAgain == <<"F", "a", "i", "l", "e", "d", " ", "t", "o", " ", "c", "r", "e",
                 "a", "t", "e", " ", "s", "e", "s", "s", "i", "o", "n", ".", " ",
                 "P", "l", "e", "a", "s", "e", " ", "t", "r", "y", " ", "a", "g",
                 "a", "i", "n", ".">>

\* A message kept without its references.
MessageStripped(role, content) == [role |-> role, content |-> Sub(content)]

Message(role, content) == [role |-> role, content |-> content]

\* One st.chat_message container (role "app": elements outside of the chat),
\* the code that filled it and the text that code was given. how is "replay"
\* (the history loop), "live" (the display of a parsed response), "prompt"
\* (the prompt, shown as typed) or "failed" (an error message).
Container(role, how, content, blocks) ==
    [role |-> role, how |-> how, content |-> content, blocks |-> blocks]

\* Lines 80-103: the chat history as displayed.
Replay(f, msgs) ==
    [k \in 1..Len(msgs) |->
        Container(msgs[k].role, "replay", msgs[k].content,
                  ReplayBlocks(f, msgs[k].content))]

\* The outcomes of the POST to /run: a RequestException (no connection, a
\* timeout, an HTTP error status), a body response.json() cannot parse, or
\* the parsed body. (requests 2.27 and later raise the parse error as a
\* RequestException too, which then ends as the first outcome does.)
RunOutcomes(responses) ==
    {[kind |-> "connect", data |-> JNull], [kind |-> "badjson", data |-> JNull]}
    \cup {[kind |-> "json", data |-> d] : d \in responses}

\* Lines 134-208: the assistant container and full_response, for one outcome.
Answer(f, outcome) ==
    IF outcome.kind = "connect"
    THEN [how |-> "failed", text |-> ErrConnect,
          blocks |-> <<Block("error", ErrConnect, << >>)>>]
    ELSE IF outcome.kind = "badjson"
    THEN [how |-> "failed", text |-> ErrParse,
          blocks |-> <<Block("error", ErrParse, << >>)>>]
    ELSE LET got == AssembleText(outcome.data)
         IN  IF got.raised
             THEN [how |-> "failed", text |-> ErrUnexpected,
                   blocks |-> <<Block("error", ErrUnexpected, << >>)>>]
             ELSE [how |-> "live", text |-> got.text,
                   blocks |-> LiveBlocks(f, got.text)]

(***************************************************************************)
(* uuid.uuid4().hex : the values the random source is taken to return.     *)
(* The first two agree on their first eight digits.                        *)
(***************************************************************************)
Uuid4Hex ==
    { <<"0", "a", "1", "b", "2", "c", "3", "d", "5", "e", "6", "f", "4", "a",
        "7", "b", "8", "c", "9", "d", "0", "e", "1", "f", "2", "a", "3", "b",
        "4", "c", "5", "d">>,
      <<"0", "a", "1", "b", "2", "c", "3", "d", "0", "0", "0", "0", "4", "0",
        "0", "0", "a", "0", "0", "0", "0", "0", "0", "0", "0", "0", "0", "0",
        "0", "0", "0", "1">>,
      <<"d", "e", "a", "d", "b", "e", "e", "f", "1", "2", "3", "4", "4", "a",
        "b", "c", "9", "d", "e", "f", "0", "1", "2", "3", "4", "5", "6", "7",
        "8", "9", "a", "b">> }

\* filename = f"viz_{uuid.uuid4()}.png": the uuid as its str(), with dashes.
FilenameOfStr(hex) ==
    <<"v", "i", "z", "_">> \o SubSeq(hex, 1, 8) \o <<"-">> \o SubSeq(hex, 9, 12)
    \o <<"-">> \o SubSeq(hex, 13, 16) \o <<"-">> \o SubSeq(hex, 17, 20)
    \o <<"-">> \o SubSeq(hex, 21, 32) \o <<".", "p", "n", "g">>

\* hex[:8]
Hex8(hex) == SubSeq(hex, 1, 8)

\* filename = f"viz_{uuid.uuid4().hex[:8]}.png"
Filename(hex) == <<"v", "i", "z", "_">> \o Hex8(hex) \o <<".", "p", "n", "g">>

\* filepath = os.path.join(OUTPUT_DIR, filename)
Filepath(hex) == PathJoin(OUTPUT_DIR, Filename(hex))

\* f"s_{uuid.uuid4().hex[:8]}" and f"u_{uuid.uuid4().hex[:8]}"
SessionIds == {<<"s", "_">> \o Hex8(hex) : hex \in Uuid4Hex}
UserIds == {<<"u", "_">> \o Hex8(hex) : hex \in {h \in Uuid4Hex : h[1] = "d"}}

\* The value a successful render call returns for that uuid:
\* os.path.abspath(filepath).
SavedPath(hex) == Abspath(Filepath(hex))

\* The producer's side of the protocol (the agent's instructions): the part of
\* the returned path after the last /, wrapped as [VIZ:filename].
EmbeddedReference(path) == <<"[", "V", "I", "Z", ":">> \o Basename(path) \o <<"]">>

\* The content of an image file: the render call that wrote it (0: a call of
\* an earlier process) and whether all of it was written.
Image(by, whole) == [by |-> by, whole |-> whole]

\* The files the output directory may hold when the process starts: it is
\* kept from one process to the next (os.makedirs(..., exist_ok=True)).
KeptHex == CHOOSE hex \in Uuid4Hex : hex[1] = "0" /\ hex[9] = "5"
InitialFs == {<< >>, [p \in {SavedPath(KeptHex)} |-> Image(0, TRUE)]}

\* No value yet: _parse_data has not been called.
NoValue == [t |-> "unset"]

\* pyplot when the module is imported: no figure. figs holds the open figures
\* in the order of pyplot's registry; the last one is the current figure.
NoFigures == [figs |-> << >>]

\* No tool call yet, and nothing drawn.
NoToolCall == [kind |-> "none"]
NoChart ==
    [result |-> "none", kind |-> "none", title |-> << >>, xlabel |-> << >>,
     ylabel |-> << >>, marks |-> << >>, texts |-> << >>, rotated |-> FALSE]

NoCall ==
    [kind |-> "none", empty |-> FALSE, absent |-> {}, result |-> "none",
     key |-> << >>, path |-> << >>]

Init ==
    /\ fs \in InitialFs
    /\ figures = 0
    /\ calls = 0
    /\ last = NoCall
    /\ messages = << >>
    /\ session_id = << >>
    /\ user_id = << >>
    /\ session_created = FALSE
    /\ screen = << >>
    /\ posted = {}
    /\ payload = NoValue
    /\ returned = NoValue
    /\ pyplot = NoFigures
    /\ inflight = << >>
    /\ toolcall = NoToolCall
    /\ chart = NoChart
    /\ run_response = NoResponse
    /\ assembled = NotAssembled

Prompts == { <<"h", "i">>, <<"[", "V", "I", "Z", ":", "a", ".", "p", "n", "g", "]">> }

Post(op, user, session, ok) ==
    [op |-> op, user |-> user, session |-> session, ok |-> ok]

\* Lines 15-22, at the start of every script run: what is not in the session
\* state yet is set (messages and session_created to the values Init gives).
\* Ids drawn anew at every script run.
StartedAnew(sid, uid) == sid \in SessionIds /\ uid \in UserIds

Started(sid, uid) ==
    /\ sid \in (IF session_id = << >> THEN SessionIds ELSE {session_id})
    /\ uid \in (IF user_id = << >> THEN UserIds ELSE {user_id})

\* Lines 106-212: a script run with a prompt from st.chat_input, the run
\* response being one of `responses`; at most `turns` prompts are answered.
ChatTurn(prompts, responses, turns) ==
    /\ Len(messages) < 2 * turns
    /\ \E sid \in SessionIds, uid \in UserIds, prompt \in prompts,
          createOk \in BOOLEAN, outcome \in RunOutcomes(responses) :
        LET history == Replay(fs, messages)
        IN  /\ Started(sid, uid)
            /\ session_id' = sid
            /\ user_id' = uid
            /\ IF ~session_created /\ ~createOk
               THEN /\ posted' = posted \cup {Post("create", uid, sid, FALSE)}
                    /\ screen' = Append(history,
                           Container("app", "failed", << >>,
                                     << Block("error", ErrSession, << >>),
                                        Block("error", ErrTryAgain, << >>) >>))
                    /\ UNCHANGED <<messages, session_created>>
               ELSE LET answer == Answer(fs, outcome)
                        asked == Append(messages, Message("user", prompt))
                    IN  /\ posted' = posted
                               \cup (IF session_created THEN {}
                                     ELSE {Post("create", uid, sid, TRUE)})
                               \cup {Post("run", uid, sid,
                                          outcome.kind # "connect")}
                        /\ session_created' = TRUE
                        /\ messages' =
                               IF answer.text # << >>
                               THEN Append(asked,
                                           Message("assistant", answer.text))
                               ELSE asked
                        /\ screen' = history \o
                               << Container("user", "prompt", prompt,
                                            <<Markdown(prompt)>>),
                                  Container("assistant", answer.how,
                                            answer.text, answer.blocks) >>
    /\ UNCHANGED toolVars

\* A script run without a prompt and without a button (the first load of the
\* page, any other widget event): the history is displayed.
Rerun ==
    /\ \E sid \in SessionIds, uid \in UserIds :
          /\ Started(sid, uid)
          /\ session_id' = sid
          /\ user_id' = uid
    /\ screen' = Replay(fs, messages)
    /\ UNCHANGED <<messages, session_created, posted, toolVars>>

\* Lines 52-56: the New Session button, and the rerun it asks for. A button
\* is there to be clicked once a script run has displayed the page.
NewSession ==
    /\ session_id # << >>
    /\ session_id' \in SessionIds
    /\ \E sid \in SessionIds, uid \in UserIds :
          /\ Started(sid, uid)
          /\ user_id' = uid
    /\ messages' = << >>
    /\ session_created' = FALSE
    /\ screen' = Replay(fs, messages')
    /\ UNCHANGED <<posted, toolVars>>

\* Lines 58-60: the Clear Chat button, and the rerun it asks for.
ClearChat ==
    /\ session_id # << >>
    /\ \E sid \in SessionIds, uid \in UserIds :
          /\ Started(sid, uid)
          /\ session_id' = sid
          /\ user_id' = uid
    /\ messages' = << >>
    /\ screen' = Replay(fs, messages')
    /\ UNCHANGED <<session_created, posted, toolVars>>

(***************************************************************************)
(* The response texts of the consumer's specification: up to MaxPieces     *)
(* pieces in a row.                                                        *)
(***************************************************************************)
Pieces ==
    { EmbeddedReference(SavedPath(KeptHex)),
      EmbeddedReference(SavedPath(CHOOSE hex \in Uuid4Hex : hex[1] = "d")),
      <<"R", "e", "s", "u", "l", "t", ":", " ">>,
      <<" ", "d", "o", "n", "e">>,
      <<"[", "V", "I", "Z", ":", ".", ".", "/", "x", ".", "p", "n", "g", "]">>,
      <<"[", "V", "I", "Z", ":", "a", ".", "j", "p", "g", "]">>,
      TagOpen, TagClose, <<"a">> }

RECURSIVE Concat(_)
Concat(q) == IF q = << >> THEN << >> ELSE Head(q) \o Concat(Tail(q))

Texts == {Concat(q) : q \in UNION {[1..n -> Pieces] : n \in 0..MaxPieces}}

\* The response the agent API sends for a reply text: one event, one part.
TextResponse(text) ==
    JList(<< JDict([content |->
                JDict([parts |-> JList(<<JDict([text |-> JStr(text)])>>)])]) >>)

TextResponses == {TextResponse(text) : text \in Texts}

NextText == ChatTurn({<<"h", "i">>}, TextResponses, MaxTurns) \/ Rerun

SpecText == Init /\ [][NextText]_vars

(***************************************************************************)
(* The tables of the render calls.                                         *)
(***************************************************************************)
Num(n) == [t |-> "num", num |-> n]
PyStr(chars) == [t |-> "str", str |-> chars]
Str == PyStr(<<"s">>)
PyBool(b) == [t |-> "bool", bool |-> b]
PyNone == [t |-> "none"]
Inf == [t |-> "inf"]
\* A list of values, and a dict: its keys (strings, as characters) -> values.
PyList(items) == [t |-> "list", list |-> items]
PyDict(items) == [t |-> "dict", dict |-> items]
PyTuple(items) == [t |-> "tuple", tuple |-> items]
NaN == [t |-> "nan"]

\* The column names of the requests; no table has a column z.
ColM == <<"m">>
ColO == <<"o">>
ColZ == <<"z">>
Selectors == {ColM, ColO, ColZ}

\* The records of the tables: a full numeric record, one with a string in o,
\* one without o.
Records ==
    { [c \in {ColM, ColO} |-> IF c = ColM THEN Num(1) ELSE Num(2)],
      [c \in {ColM, ColO} |-> IF c = ColM THEN Num(2) ELSE Str],
      [c \in {ColM} |-> Num(3)] }

Tables == UNION {[1..n -> Records] : n \in 0..MaxRows}

\* The list of dicts of a table, as a Python value.
Native(table) == PyList([i \in DOMAIN table |-> PyDict(table[i])])

(***************************************************************************)
(* json.loads and ast.literal_eval, on the characters of the text. The     *)
(* notation that is read: lists, dicts whose keys are string literals,     *)
(* string literals, whole numbers without sign, and the names of the       *)
(* constants. The escapes read are \" \\ \/ \' \n \t.                       *)
(***************************************************************************)
Parsed(v, i) == [ok |-> TRUE, v |-> v, i |-> i]
NoParse == [ok |-> FALSE, v |-> PyNone, i |-> 0]

\* The index of the first character from i on that is no white space.
RECURSIVE SkipSpaces(_, _)
SkipSpaces(s, i) ==
    IF i <= Len(s) /\ s[i] \in Whitespace THEN SkipSpaces(s, i + 1) ELSE i

RECURSIVE DigitRun(_, _)
DigitRun(s, i) ==
    IF i <= Len(s) /\ s[i] \in Digit THEN 1 + DigitRun(s, i + 1) ELSE 0

DigitValue(c) ==
    CHOOSE d \in 0..9 :
        <<"0", "1", "2", "3", "4", "5", "6", "7", "8", "9">>[d + 1] = c

RECURSIVE IntOf(_)
IntOf(ds) ==
    IF ds = << >> THEN 0
    ELSE 10 * IntOf(SubSeq(ds, 1, Len(ds) - 1)) + DigitValue(ds[Len(ds)])

\* The quotes that open a string literal.
Quotes(mode) == IF mode = "json" THEN {"\""} ELSE {"\"", "'"}

\* What \c stands for in a string literal; << >>: \c is an error. JSON has
\* the escape \/ for /, and rejects a \ before any other character; Python
\* keeps a \ that starts no escape, and the character after it.
Escape(c, mode) ==
    IF c = "n" THEN <<"\n">>
    ELSE IF c = "t" THEN <<"\t">>
    ELSE IF mode = "json"
    THEN (IF c \in {"\"", "\\", "/"} THEN <<c>> ELSE << >>)
    ELSE (IF c \in {"\"", "'", "\\"} THEN <<c>> ELSE <<"\\", c>>)

\* The rest of a string literal from j on, up to its closing quote.
RECURSIVE ScanString(_, _, _, _, _)
ScanString(s, j, quote, mode, acc) ==
    IF j > Len(s) THEN NoParse
    ELSE IF s[j] = quote THEN Parsed(PyStr(acc), j + 1)
    ELSE IF s[j] = "\n" \/ (mode = "json" /\ s[j] = "\t") THEN NoParse
    ELSE IF s[j] = "\\"
    THEN (IF j + 1 > Len(s) \/ Escape(s[j + 1], mode) = << >> THEN NoParse
          ELSE ScanString(s, j + 2, quote, mode,
                          acc \o Escape(s[j + 1], mode)))
    ELSE ScanString(s, j + 1, quote, mode, Append(acc, s[j]))

\* A string literal at i. Python joins string literals that follow each
\* other.
RECURSIVE ParseStringAtom(_, _, _)
ParseStringAtom(s, i, mode) ==
    LET r == ScanString(s, i + 1, s[i], mode, << >>)
    IN  IF ~r.ok \/ mode = "json" THEN r
        ELSE LET j == SkipSpaces(s, r.i)
             IN  IF j <= Len(s) /\ s[j] \in Quotes(mode)
                 THEN LET more == ParseStringAtom(s, j, mode)
                      IN  IF more.ok
                          THEN Parsed(PyStr(r.v.str \o more.v.str), more.i)
                          ELSE NoParse
                 ELSE r

\* A whole number at i. JSON reads 0 or a run of digits that does not start
\* with 0; Python rejects a run that starts with 0 unless it is all zeros.
ParseNumber(s, i, mode) ==
    LET run == DigitRun(s, i)
        ds == SubSeq(s, i, i + run - 1)
    IN  IF mode = "json"
        THEN (IF s[i] = "0" THEN Parsed(Num(0), i + 1)
              ELSE Parsed(Num(IntOf(ds)), i + run))
        ELSE (IF s[i] = "0" /\ \E k \in 1..run : ds[k] # "0" THEN NoParse
              ELSE Parsed(Num(IntOf(ds)), i + run))

RECURSIVE NameRun(_, _)
NameRun(s, i) ==
    IF i <= Len(s) /\ s[i] \in NameClass THEN 1 + NameRun(s, i + 1) ELSE 0

\* The name of a constant at i. JSON's scanner compares the text at i with
\* its names; Python reads the whole identifier.
ParseName(s, i, mode) ==
    IF mode = "json"
    THEN (IF StartsAt(s, i, <<"t", "r", "u", "e">>)
          THEN Parsed(PyBool(TRUE), i + 4)
          ELSE IF StartsAt(s, i, <<"f", "a", "l", "s", "e">>)
          THEN Parsed(PyBool(FALSE), i + 5)
          ELSE IF StartsAt(s, i, <<"n", "u", "l", "l">>)
          THEN Parsed(PyNone, i + 4)
          ELSE IF StartsAt(s, i, <<"N", "a", "N">>)
          THEN Parsed(NaN, i + 3)
          ELSE IF StartsAt(s, i, <<"I", "n", "f", "i", "n", "i", "t", "y">>)
          THEN Parsed(Inf, i + 8)
          ELSE NoParse)
    ELSE LET name == SubSeq(s, i, i + NameRun(s, i) - 1)
         IN  IF name = <<"T", "r", "u", "e">>
             THEN Parsed(PyBool(TRUE), i + 4)
             ELSE IF name = <<"F", "a", "l", "s", "e">>
             THEN Parsed(PyBool(FALSE), i + 5)
             ELSE IF name = <<"N", "o", "n", "e">>
             THEN Parsed(PyNone, i + 4)
             ELSE NoParse

\* d with key k set to v.
Put(d, k, v) == [x \in DOMAIN d \cup {k} |-> IF x = k THEN v ELSE d[x]]

RECURSIVE ParseValue(_, _, _)
RECURSIVE ParseElements(_, _, _, _)
RECURSIVE ParseMembers(_, _, _, _)

\* The value that starts at i.
ParseValue(s, i, mode) ==
    IF i > Len(s) THEN NoParse
    ELSE IF s[i] = "[" THEN ParseElements(s, SkipSpaces(s, i + 1), mode, << >>)
    ELSE IF s[i] = "{" THEN ParseMembers(s, SkipSpaces(s, i + 1), mode, << >>)
    ELSE IF s[i] \in Quotes(mode) THEN ParseStringAtom(s, i, mode)
    ELSE IF s[i] \in Digit THEN ParseNumber(s, i, mode)
    ELSE ParseName(s, i, mode)

\* The elements of a list from i on, after the elements acc. A comma before
\* the closing bracket is an error in JSON and allowed in Python.
ParseElements(s, i, mode, acc) ==
    IF i > Len(s) THEN NoParse
    ELSE IF s[i] = "]"
    THEN (IF acc = << >> \/ mode = "literal" THEN Parsed(PyList(acc), i + 1)
          ELSE NoParse)
    ELSE LET r == ParseValue(s, i, mode)
             j == SkipSpaces(s, r.i)
         IN  IF ~r.ok \/ j > Len(s) THEN NoParse
             ELSE IF s[j] = "]" THEN Parsed(PyList(Append(acc, r.v)), j + 1)
             ELSE IF s[j] = ","
             THEN ParseElements(s, SkipSpaces(s, j + 1), mode, Append(acc, r.v))
             ELSE NoParse

\* The members of a dict from i on, after the members acc; a key that is
\* repeated keeps its last value.
ParseMembers(s, i, mode, acc) ==
    IF i > Len(s) THEN NoParse
    ELSE IF s[i] = "}"
    THEN (IF DOMAIN acc = {} \/ mode = "literal" THEN Parsed(PyDict(acc), i + 1)
          ELSE NoParse)
    ELSE IF s[i] \notin Quotes(mode) THEN NoParse
    ELSE LET k == ParseStringAtom(s, i, mode)
             c == SkipSpaces(s, k.i)
         IN  IF ~k.ok \/ c > Len(s) THEN NoParse
             ELSE IF s[c] # ":" THEN NoParse
             ELSE LET r == ParseValue(s, SkipSpaces(s, c + 1), mode)
                      j == SkipSpaces(s, r.i)
                  IN  IF ~r.ok \/ j > Len(s) THEN NoParse
                      ELSE IF s[j] = "}"
                      THEN Parsed(PyDict(Put(acc, k.v.str, r.v)), j + 1)
                      ELSE IF s[j] = ","
                      THEN ParseMembers(s, SkipSpaces(s, j + 1), mode,
                                        Put(acc, k.v.str, r.v))
                      ELSE NoParse

\* json.loads(data): the whole text as one value, white space around it
\* allowed; ok, or JSONDecodeError.
JsonLoads(s) ==
    LET r == ParseValue(s, SkipSpaces(s, 1), "json")
    IN  IF r.ok /\ SkipSpaces(s, r.i) > Len(s) THEN r ELSE NoParse

\* The values after a comma at the top of a Python expression: with those
\* before it they make a tuple; the last comma may end the text.
RECURSIVE TupleRest(_, _, _)
TupleRest(s, i, acc) ==
    IF i > Len(s) THEN Parsed(PyTuple(acc), i)
    ELSE LET r == ParseValue(s, i, "literal")
             j == SkipSpaces(s, r.i)
         IN  IF ~r.ok THEN NoParse
             ELSE IF j > Len(s) THEN Parsed(PyTuple(Append(acc, r.v)), j)
             ELSE IF s[j] = ","
             THEN TupleRest(s, SkipSpaces(s, j + 1), Append(acc, r.v))
             ELSE NoParse

\* ast.literal_eval(data): ok, or an exception.
LiteralEval(s) ==
    LET r == ParseValue(s, SkipSpaces(s, 1), "literal")
        j == SkipSpaces(s, r.i)
    IN  IF ~r.ok THEN NoParse
        ELSE IF j > Len(s) THEN r
        ELSE IF s[j] = "," THEN TupleRest(s, SkipSpaces(s, j + 1), <<r.v>>)
        ELSE NoParse

(***************************************************************************)
(* _parse_data                                                             *)
(***************************************************************************)
PreviewLen == 100

\* data, not cut.
TakeAll(s, n) == s

\* data[:n]
Take(s, n) == SubSeq(s, 1, IF Len(s) < n THEN Len(s) ELSE n)

CouldNotParse ==
    <<"C", "o", "u", "l", "d", " ", "n", "o", "t", " ", "p", "a", "r", "s",
    "e", " ", "d", "a", "t", "a", ".", " ", "E", "x", "p", "e", "c", "t",
    "e", "d", " ", "J", "S", "O", "N", " ", "s", "t", "r", "i", "n", "g",
    " ", "o", "r", " ", "l", "i", "s", "t", " ", "o", "f", " ", "d", "i",
    "c", "t", "s", ".", " ", "G", "o", "t", ":", " ">>

\* raise ValueError(message)
ValueError(message) == [t |-> "ValueError", message |-> message]

\* _parse_data that evaluates the literal first and reads JSON when that
\* fails.
ParseDataLiteralFirst(data) ==
    IF data.t \in {"list", "dict"} THEN data
    ELSE IF data.t = "str"
    THEN (IF LiteralEval(data.str).ok THEN LiteralEval(data.str).v
          ELSE IF JsonLoads(data.str).ok THEN JsonLoads(data.str).v
          ELSE ValueError(CouldNotParse \o Take(data.str, PreviewLen)))
    ELSE data

\* _parse_data without the second attempt.
ParseDataJsonOnly(data) ==
    IF data.t \in {"list", "dict"} THEN data
    ELSE IF data.t = "str"
    THEN (IF JsonLoads(data.str).ok THEN JsonLoads(data.str).v
          ELSE ValueError(CouldNotParse \o Take(data.str, PreviewLen)))
    ELSE data

\* _parse_data(data): the value returned, or the ValueError raised.
ParseData(data) ==
    IF data.t \in {"list", "dict"} THEN data
    ELSE IF data.t = "str"
    THEN (IF JsonLoads(data.str).ok THEN JsonLoads(data.str).v
          ELSE IF LiteralEval(data.str).ok THEN LiteralEval(data.str).v
          ELSE ValueError(CouldNotParse \o Take(data.str, PreviewLen)))
    ELSE data

\* The data arguments of the render calls: lists of records.
ListPayloads == {Native(table) : table \in Tables}

\* pd.DataFrame(data_list) of a list of records: the columns are the keys of
\* all records; a record without a key has NaN in that column.
DataFrame(data_list) ==
    LET rows == [i \in 1..Len(data_list.list) |-> data_list.list[i].dict]
    IN  [columns |-> UNION {DOMAIN rows[i] : i \in DOMAIN rows},
         n |-> Len(rows),
         rows |-> rows]

\* df[c], for a column c of df.
Column(df, c) ==
    [i \in 1..df.n |-> IF c \in DOMAIN df.rows[i] THEN df.rows[i][c] ELSE NaN]

\* str.strip() of s.
RECURSIVE Strip(_)
Strip(s) ==
    IF s = << >> THEN s
    ELSE IF s[1] \in Whitespace THEN Strip(Tail(s))
    ELSE IF s[Len(s)] \in Whitespace THEN Strip(SubSeq(s, 1, Len(s) - 1))
    ELSE s

\* s.split(',')
RECURSIVE SplitComma(_, _, _)
SplitComma(s, i, cur) ==
    IF i > Len(s) THEN <<cur>>
    ELSE IF s[i] = "," THEN <<cur>> \o SplitComma(s, i + 1, << >>)
    ELSE SplitComma(s, i + 1, Append(cur, s[i]))

\* y_cols = [col.strip() for col in y_columns.split(',')]
YCols(y_columns) ==
    LET parts == SplitComma(y_columns, 1, << >>)
    IN  [k \in 1..Len(parts) |-> Strip(parts[k])]

\* The values of y_columns of the requests.
YColumns ==
    { <<"o">>, <<"z">>, <<"o", ",", "m">>, <<"o", ",", " ", "z">>, << >> }

(***************************************************************************)
(* What a renderer does before _save_figure: it opens a figure, reads the  *)
(* selected columns and draws. The result is "drawn", "MissingColumnError" *)
(* (pandas' KeyError, seaborn's ValueError for a name that is no column;   *)
(* key is the name) or "RenderError" (an exception of the drawing).        *)
(***************************************************************************)
Before(result, key, opened) == [result |-> result, key |-> key, opened |-> opened]

\* The first of the names that is no column of df, << >> when all are.
RECURSIVE FirstMissing(_, _)
FirstMissing(df, names) ==
    IF names = << >> THEN << >>
    ELSE IF Head(names) \notin df.columns THEN <<Head(names)>>
    ELSE FirstMissing(df, Tail(names))

AllNumbers(df, cols) ==
    \A c \in cols : \A i \in 1..df.n : Column(df, c)[i].t = "num"

\* The drawing of values that are numbers succeeds; what matplotlib and
\* seaborn do with a string or a NaN where a number is drawn is theirs.
Drawing(df, numeric) ==
    IF AllNumbers(df, numeric)
    THEN {Before("drawn", << >>, TRUE)}
    ELSE {Before("drawn", << >>, TRUE), Before("RenderError", << >>, TRUE)}

\* A renderer that reads the columns `names` in that order after it has
\* opened its figure, and draws the columns `numeric` as numbers.
ReadThenDraw(df, names, numeric) ==
    LET missing == FirstMissing(df, names)
    IN  IF missing # << >>
        THEN {Before("MissingColumnError", missing[1], TRUE)}
        ELSE Drawing(df, numeric)

\* create_bar_chart, lines 84-109. f'{v:,.0f}' raises for a string v.
BarBefore(df, x_column, y_column) ==
    LET missing == FirstMissing(df, <<x_column, y_column>>)
    IN  IF missing # << >>
        THEN {Before("MissingColumnError", missing[1], TRUE)}
        ELSE IF \E i \in 1..df.n : Column(df, y_column)[i].t = "str"
        THEN {Before("RenderError", << >>, TRUE)}
        ELSE Drawing(df, {y_column})

\* The names of y_cols that are columns of df: the lines that are plotted.
Plotted(df, y_cols) == SelectSeq(y_cols, LAMBDA col : col \in df.columns)

\* create_line_chart, lines 131-147: names of y_cols that are no columns are
\* passed over, and df[x_column] is read only when a line is plotted.
LineBefore(df, x_column, y_columns) ==
    LET lines == Plotted(df, YCols(y_columns))
    IN  IF lines = << >> THEN {Before("drawn", << >>, TRUE)}
        ELSE ReadThenDraw(df, <<x_column>>, {lines[k] : k \in 1..Len(lines)})

\* create_pie_chart, lines 168-191.
PieBefore(df, values_column, names_column) ==
    ReadThenDraw(df, <<values_column, names_column>>, {values_column})

\* create_heatmap, lines 212-231: pivot_table reads values, index and columns
\* before the figure is opened.
HeatmapBefore(df, x_column, y_column, value_column) ==
    LET missing == FirstMissing(df, <<value_column, y_column, x_column>>)
    IN  IF missing # << >>
        THEN {Before("MissingColumnError", missing[1], FALSE)}
        ELSE Drawing(df, {value_column})

\* create_scatter_plot, lines 253-265.
ScatterBefore(df, x_column, y_column) ==
    ReadThenDraw(df, <<x_column, y_column>>, {x_column, y_column})

\* create_histogram, lines 284-296.
HistogramBefore(df, column) == ReadThenDraw(df, <<column>>, {column})

\* create_box_plot, lines 316-332: a category_column that is no column is
\* treated as none given.
BoxBefore(df, value_column, category_column) ==
    IF category_column # << >> /\ category_column \in df.columns
    THEN ReadThenDraw(df, <<category_column, value_column>>, {value_column})
    ELSE ReadThenDraw(df, <<value_column>>, {value_column})

(***************************************************************************)
(* _save_figure and the end of a render call.                              *)
(***************************************************************************)
\* What fig.savefig(filepath) may do: write the file, fail before it has
\* created the file, or fail with a part of it written.
WriteResults == {"written", "refused", "broken"}

\* The file system after savefig with that result.
Savefig(filepath, result) ==
    IF result = "refused" THEN fs
    ELSE [p \in DOMAIN fs \cup {Abspath(filepath)} |->
            IF p = Abspath(filepath) THEN Image(calls + 1, result = "written")
            ELSE fs[p]]

\* The request of a call as the claims read it: the chart kind, whether the
\* table has no rows, and the selected names that are no columns.
Request(kind, df, selected) ==
    [kind |-> kind, empty |-> df.n = 0, absent |-> selected \ df.columns]

Ended(request, result, key, path) ==
    [kind |-> request.kind, empty |-> request.empty, absent |-> request.absent,
     result |-> result, key |-> key, path |-> path]

\* A render call whose steps before _save_figure end as one of `befores`.
Render(request, befores) ==
    /\ calls < MaxCalls
    /\ calls' = calls + 1
    /\ \E before \in befores :
          IF before.result = "drawn"
          THEN \E hex \in Uuid4Hex, written \in WriteResults :
                  /\ fs' = Savefig(Filepath(hex), written)
                  /\ IF written = "written"
                     THEN /\ figures' = figures
                          /\ last' = Ended(request, "ok", << >>, SavedPath(hex))
                     ELSE /\ figures' = figures + 1
                          /\ last' = Ended(request, "ArtifactWriteError", << >>,
                                           << >>)
          ELSE /\ fs' = fs
               /\ figures' = figures + (IF before.opened THEN 1 ELSE 0)
               /\ last' = Ended(request, before.result, before.key, << >>)
    /\ UNCHANGED <<uiVars, parseVars, plotVars, drawVars,
                 textVars>>

CreateBarChart ==
    \E data \in ListPayloads, x_column \in Selectors, y_column \in Selectors :
        LET df == DataFrame(ParseData(data))
        IN  Render(Request("bar", df, {x_column, y_column}),
                   BarBefore(df, x_column, y_column))

CreateLineChart ==
    \E data \in ListPayloads, x_column \in Selectors, y_columns \in YColumns :
        LET df == DataFrame(ParseData(data))
            y_cols == YCols(y_columns)
        IN  Render(Request("line", df,
                           {x_column} \cup {y_cols[k] : k \in 1..Len(y_cols)}),
                   LineBefore(df, x_column, y_columns))

CreatePieChart ==
    \E data \in ListPayloads, values_column \in Selectors, names_column \in Selectors :
        LET df == DataFrame(ParseData(data))
        IN  Render(Request("pie", df, {values_column, names_column}),
                   PieBefore(df, values_column, names_column))

CreateHeatmap ==
    \E data \in ListPayloads, x_column \in Selectors, y_column \in Selectors,
       value_column \in Selectors :
        LET df == DataFrame(ParseData(data))
        IN  Render(Request("heatmap", df, {x_column, y_column, value_column}),
                   HeatmapBefore(df, x_column, y_column, value_column))

CreateScatterPlot ==
    \E data \in ListPayloads, x_column \in Selectors, y_column \in Selectors :
        LET df == DataFrame(ParseData(data))
        IN  Render(Request("scatter", df, {x_column, y_column}),
                   ScatterBefore(df, x_column, y_column))

CreateHistogram ==
    \E data \in ListPayloads, column \in Selectors :
        LET df == DataFrame(ParseData(data))
        IN  Render(Request("histogram", df, {column}),
                   HistogramBefore(df, column))

CreateBoxPlot ==
    \E data \in ListPayloads, value_column \in Selectors,
       category_column \in Selectors \cup {<< >>} :
        LET df == DataFrame(ParseData(data))
        IN  Render(Request("box", df, {value_column, category_column} \ {<< >>}),
                   BoxBefore(df, value_column, category_column))

NextRender ==
    \/ CreateBarChart
    \/ CreateLineChart
    \/ CreatePieChart
    \/ CreateHeatmap
    \/ CreateScatterPlot
    \/ CreateHistogram
    \/ CreateBoxPlot

SpecRender == Init /\ [][NextRender]_vars

(***************************************************************************)
(* Calls of _parse_data: the payloads are texts of up to MaxTokens pieces, *)
(* a text longer than the preview of the error message, lists of records,  *)
(* single records, and values that are none of these.                      *)
(***************************************************************************)
PayloadPieces ==
    { <<"[", "{", "\"", "m", "\"", ":", " ", "1", "}">>,
      <<"[", "{", "'", "m", "'", ":", " ", "1", "}">>,
      <<"[", "{", "\"", "m", "\"", ":", " ", "\"", "a", "\\", "/", "b", "\"",
      "}">>,
      <<"[", "{", "\"", "m", "\"", ":", " ", "n", "u", "l", "l", "}">>,
      <<"[", "{", "\"", "m", "\"", ":", " ", "N", "o", "n", "e", "}">>,
      <<",", " ", "{", "\"", "m", "\"", ":", " ", "2", "}">>,
      <<",">>,
      <<"]">>,
      <<"5">>,
      <<"\"", "s", "\"">>,
      <<"x">>,
      <<"[">>,
      <<" ">>,
      <<"{", "\"", "m", "\"", ":", " ", "1", "}">> }

PayloadTexts ==
    {Concat(q) : q \in UNION {[1..n -> PayloadPieces] : n \in 0..MaxTokens}}

\* PreviewLen + 1 times x.
LongText == [i \in 1..(PreviewLen + 1) |-> "x"]

(***************************************************************************)
(* The text forms of a list of records: as json.dumps writes it (strict),  *)
(* and as Python's repr writes it (a literal).                             *)
(***************************************************************************)
DigitChar(d) == <<"0", "1", "2", "3", "4", "5", "6", "7", "8", "9">>[d + 1]

RECURSIVE Digits(_)
Digits(n) ==
    IF n < 10 THEN <<DigitChar(n)>>
    ELSE Digits(n \div 10) \o <<DigitChar(n % 10)>>

\* The characters cs with a \ before each character of `escaped`.
RECURSIVE Escaped(_, _)
Escaped(cs, escaped) ==
    IF cs = << >> THEN << >>
    ELSE (IF Head(cs) \in escaped THEN <<"\\", Head(cs)>> ELSE <<Head(cs)>>)
         \o Escaped(Tail(cs), escaped)

\* json.dumps of a string.
JsonString(cs) == <<"\"">> \o Escaped(cs, {"\"", "\\"}) \o <<"\"">>

\* repr of a string: in double quotes when it holds ' and no ", in single
\* quotes otherwise.
ReprString(cs) ==
    IF (\E i \in 1..Len(cs) : cs[i] = "'") /\ ~(\E i \in 1..Len(cs) : cs[i] = "\"")
    THEN <<"\"">> \o Escaped(cs, {"\\"}) \o <<"\"">>
    ELSE <<"'">> \o Escaped(cs, {"'", "\\"}) \o <<"'">>

\* ", ".join(texts)
RECURSIVE Joined(_)
Joined(texts) ==
    IF texts = << >> THEN << >>
    ELSE IF Len(texts) = 1 THEN texts[1]
    ELSE texts[1] \o <<",", " ">> \o Joined(Tail(texts))

\* The keys of a record, in the order of its columns.
KeysOf(record) == SelectSeq(<<ColM, ColO, ColZ>>, LAMBDA c : c \in DOMAIN record)

\* The text of a value in the form "json" or "literal".
RECURSIVE TextOf(_, _)
TextOf(x, form) ==
    IF x.t = "list"
    THEN <<"[">> \o Joined([i \in 1..Len(x.list) |-> TextOf(x.list[i], form)])
         \o <<"]">>
    ELSE IF x.t = "dict"
    THEN LET ks == KeysOf(x.dict)
         IN  <<"{">>
             \o Joined([i \in 1..Len(ks) |->
                          (IF form = "json" THEN JsonString(ks[i])
                           ELSE ReprString(ks[i]))
                          \o <<":", " ">> \o TextOf(x.dict[ks[i]], form)])
             \o <<"}">>
    ELSE IF x.t = "str"
    THEN (IF form = "json" THEN JsonString(x.str) ELSE ReprString(x.str))
    ELSE IF x.t = "num" THEN Digits(x.num)
    ELSE IF x.t = "bool"
    THEN (IF form = "json"
          THEN (IF x.bool THEN <<"t", "r", "u", "e">>
                ELSE <<"f", "a", "l", "s", "e">>)
          ELSE (IF x.bool THEN <<"T", "r", "u", "e">>
                ELSE <<"F", "a", "l", "s", "e">>))
    ELSE (IF form = "json" THEN <<"n", "u", "l", "l">>
          ELSE <<"N", "o", "n", "e">>)

\* The records of the tables that are given in all three forms: numbers,
\* texts with /, ', " and \ in them, None and True.
FormRecords ==
    { [c \in {ColM, ColO} |->
          IF c = ColM THEN Num(1) ELSE PyStr(<<"a", "/", "b">>)],
      [c \in {ColM, ColO} |->
          IF c = ColM THEN PyNone ELSE PyStr(<<"i", "t", "'", "s">>)],
      [c \in {ColM, ColO} |->
          IF c = ColM THEN PyBool(TRUE) ELSE PyStr(<<"q", "\"", "t", "'", "\\">>)],
      [c \in {ColM} |-> Num(20)] }

FormTables == UNION {[1..n -> FormRecords] : n \in 0..MaxFormRows}

FormPayloads ==
    {PyStr(TextOf(Native(table), form)) :
        table \in FormTables, form \in {"json", "literal"}}

StrPayloads == {PyStr(text) : text \in PayloadTexts \cup {LongText}}
DictPayloads == {PyDict(record) : record \in Records}
OtherPayloads == {PyNone, Num(5)}

\* The process before a call of _parse_data with one of the payloads.
InitParse ==
    /\ \/ payload \in StrPayloads
       \/ payload \in FormPayloads
       \/ payload \in {Native(table) : table \in FormTables}
       \/ payload \in ListPayloads
       \/ payload \in DictPayloads
       \/ payload \in OtherPayloads
    /\ returned = NoValue
    /\ fs = << >>
    /\ figures = 0
    /\ calls = 0
    /\ last = NoCall
    /\ messages = << >>
    /\ session_id = << >>
    /\ user_id = << >>
    /\ session_created = FALSE
    /\ screen = << >>
    /\ posted = {}
    /\ pyplot = NoFigures
    /\ inflight = << >>
    /\ toolcall = NoToolCall
    /\ chart = NoChart
    /\ run_response = NoResponse
    /\ assembled = NotAssembled

\* The call _parse_data(payload).
ParseDataCall ==
    /\ returned.t = "unset"
    /\ returned' = ParseData(payload)
    /\ UNCHANGED <<payload, renderVars, uiVars, plotVars, drawVars,
                 textVars>>

NextParse == ParseDataCall

SpecParse == InitParse /\ [][NextParse]_vars

(***************************************************************************)
(* The producer and the consumer on one output directory: render calls,    *)
(* and chat turns in which the agent's reply refers to the files the       *)
(* directory holds.                                                        *)
(***************************************************************************)
\* The reply of an agent that keeps the whole path in the tag (the second
\* WRONG example of the instructions, lines 24-25).
FullPathReference(path) == TagOpen \o path \o <<"]">>

Lead == <<"R", "e", "s", "u", "l", "t", ":", " ">>

\* The reply texts of the agent for the files of the output directory: the
\* reference as instructed, the reference with the whole path, no reference.
AgentTexts ==
    {Lead}
    \cup {Lead \o EmbeddedReference(p) : p \in DOMAIN fs}
    \cup {Lead \o FullPathReference(p) : p \in DOMAIN fs}

AgentResponses == {TextResponse(text) : text \in AgentTexts}

NextStore ==
    \/ CreateHistogram
    \/ ChatTurn({<<"h", "i">>}, AgentResponses, MaxTurns)
    \/ Rerun

SpecStore == Init /\ [][NextStore]_vars

(***************************************************************************)
(* The chat page over its runs: prompts, reruns and the two buttons. The   *)
(* replies hold no reference, one reference, or two.                       *)
(***************************************************************************)
HistoryTexts ==
    LET ref == EmbeddedReference(SavedPath(KeptHex))
    IN  {Lead, Lead \o ref, ref \o ref}

HistoryResponses == {TextResponse(text) : text \in HistoryTexts}

NextHistory ==
    \/ ChatTurn({<<"h", "i">>}, HistoryResponses, MaxTurns)
    \/ Rerun
    \/ NewSession
    \/ ClearChat

SpecHistory == Init /\ [][NextHistory]_vars

(***************************************************************************)
(* Render calls in flight at the same time in one process. A call is       *)
(* numbered as it starts; inflight[c] is where call c stands. The steps    *)
(* are the statements of create_bar_chart and create_line_chart that touch *)
(* pyplot: fig, ax = plt.subplots(), the drawing on ax, plt.xticks(),      *)
(* plt.tight_layout(), fig.savefig() and plt.close(fig). The tables are    *)
(* ones that draw, and the writes succeed.                                 *)
(***************************************************************************)
\* A figure: the call that made it (0: made by pyplot itself when a plt.*
\* function found no figure), whether it has been drawn on, and the calls
\* whose plt.xticks and plt.tight_layout have acted on it.
Figure(fig, drawn, rotated, tight) ==
    [fig |-> fig, drawn |-> drawn, rotated |-> rotated, tight |-> tight]

\* create_bar_chart with orientation 'v' and 'h', and create_line_chart.
ChartKinds == {"bar", "barh", "line"}

\* The uuids of calls in flight.
FlightHex == {hex \in Uuid4Hex : hex[1] # "0"}

InFlight(pc, kind, path, saved) ==
    [pc |-> pc, kind |-> kind, path |-> path, saved |-> saved]

At(c, pc) == c \in DOMAIN inflight /\ inflight[c].pc = pc

\* The call c moves on to pc.
Goto(c, pc) == [inflight EXCEPT ![c].pc = pc]

\* The place of the figure that call c made, in pyplot's registry.
Own(c) == CHOOSE i \in 1..Len(pyplot.figs) : pyplot.figs[i].fig = c

\* plt.gcf(): the registry with a current figure, a new one when there is
\* none.
WithCurrent ==
    IF pyplot.figs = << >> THEN <<Figure(0, FALSE, {}, {})>> ELSE pyplot.figs

\* The registry without the figure at place i.
Removed(figs, i) == SubSeq(figs, 1, i - 1) \o SubSeq(figs, i + 1, Len(figs))

\* _parse_data, pd.DataFrame and fig, ax = plt.subplots(...): the new figure
\* becomes the current one.
Subplots ==
    /\ calls < MaxCalls
    /\ calls' = calls + 1
    /\ \E kind \in ChartKinds :
          inflight' = Append(inflight, InFlight("draw", kind, << >>, << >>))
    /\ pyplot' = [figs |-> Append(pyplot.figs, Figure(calls + 1, FALSE, {}, {}))]
    /\ figures' = Len(pyplot'.figs)
    /\ UNCHANGED <<fs, last, uiVars, parseVars, drawVars,
                 textVars>>

\* ax.bar / ax.barh / ax.plot and the other calls on ax: on the figure of
\* the call.
Draw(c) ==
    /\ At(c, "draw")
    /\ pyplot' = [figs |-> [pyplot.figs EXCEPT ![Own(c)].drawn = TRUE]]
    /\ inflight' = Goto(c, IF inflight[c].kind = "barh" THEN "layout" ELSE "xticks")
    /\ UNCHANGED <<fs, figures, calls, last, uiVars, parseVars, drawVars,
                 textVars>>

\* plt.xticks(rotation=45, ha='right'): on the current figure.
Xticks(c) ==
    /\ At(c, "xticks")
    /\ LET figs == WithCurrent
       IN  pyplot' = [figs |-> [figs EXCEPT ![Len(figs)].rotated = @ \cup {c}]]
    /\ figures' = Len(pyplot'.figs)
    /\ inflight' = Goto(c, "layout")
    /\ UNCHANGED <<fs, calls, last, uiVars, parseVars, drawVars,
                 textVars>>

\* plt.tight_layout(): on the current figure.
TightLayout(c) ==
    /\ At(c, "layout")
    /\ LET figs == WithCurrent
       IN  pyplot' = [figs |-> [figs EXCEPT ![Len(figs)].tight = @ \cup {c}]]
    /\ figures' = Len(pyplot'.figs)
    /\ inflight' = Goto(c, "save")
    /\ UNCHANGED <<fs, calls, last, uiVars, parseVars, drawVars,
                 textVars>>

\* _save_figure, lines 53-57: fig.savefig(filepath) writes the figure of the
\* call as it is now.
SaveFigure(c) ==
    /\ At(c, "save")
    /\ \E hex \in FlightHex :
          /\ fs' = [p \in DOMAIN fs \cup {SavedPath(hex)} |->
                      IF p = SavedPath(hex) THEN Image(c, TRUE) ELSE fs[p]]
          /\ inflight' = [inflight EXCEPT
                             ![c] = InFlight("close", @.kind, SavedPath(hex),
                                             <<pyplot.figs[Own(c)]>>)]
    /\ UNCHANGED <<figures, calls, last, pyplot, uiVars, parseVars, drawVars,
                 textVars>>

\* _save_figure, lines 58-61: plt.close(fig) and the return of the path.
CloseFigure(c) ==
    /\ At(c, "close")
    /\ pyplot' = [figs |-> Removed(pyplot.figs, Own(c))]
    /\ figures' = Len(pyplot'.figs)
    /\ inflight' = Goto(c, "done")
    /\ last' = Ended([kind |-> IF inflight[c].kind = "barh" THEN "bar"
                                ELSE inflight[c].kind,
                      empty |-> FALSE, absent |-> {}],
                     "ok", << >>, inflight[c].path)
    /\ UNCHANGED <<fs, calls, uiVars, parseVars, drawVars,
                 textVars>>

NextFlight ==
    \/ Subplots
    \/ \E c \in DOMAIN inflight :
          \/ Draw(c)
          \/ Xticks(c)
          \/ TightLayout(c)
          \/ SaveFigure(c)
          \/ CloseFigure(c)

SpecFlight == Init /\ [][NextFlight]_vars

(***************************************************************************)
(* What a renderer puts on its axes, as a function of the table and the    *)
(* arguments of the tool call: the calls on ax between plt.subplots and    *)
(* _save_figure, not the pixels. A tool call gives the arguments by name;  *)
(* Python binds them to the parameters of the renderer.                    *)
(***************************************************************************)
\* The parameters of the renderers after data, in order, and the defaults of
\* those that have one (lines 64-66, 113-114, 152-153, 195-196, 235-236, 269,
\* 300-301; bins of create_histogram is left at its default).
Params ==
    [bar |-> <<"x_column", "y_column", "title", "x_label", "y_label", "orientation">>,
     line |-> <<"x_column", "y_columns", "title", "x_label", "y_label">>,
     pie |-> <<"values_column", "names_column", "title">>,
     heatmap |-> <<"x_column", "y_column", "value_column", "title">>,
     scatter |-> <<"x_column", "y_column", "title", "x_label", "y_label">>,
     histogram |-> <<"column", "title">>,
     box |-> <<"value_column", "category_column", "title">>]

Defaults ==
    [bar |-> [x_label |-> << >>, y_label |-> << >>, orientation |-> <<"v">>],
     line |-> [x_label |-> << >>, y_label |-> << >>],
     pie |-> << >>,
     heatmap |-> << >>,
     scatter |-> [x_label |-> << >>, y_label |-> << >>],
     histogram |-> << >>,
     box |-> [category_column |-> << >>, title |-> << >>]]

ParamsOf(kind) == {Params[kind][i] : i \in 1..Len(Params[kind])}

\* The parameters without a default: a call that leaves one out raises
\* TypeError before the body runs.
Required(kind) == ParamsOf(kind) \ DOMAIN Defaults[kind]

\* The parameters as the body sees them.
Bound(kind, args) ==
    [p \in ParamsOf(kind) |-> IF p \in DOMAIN args THEN args[p] ELSE Defaults[kind][p]]

ToolCall(kind, data, args) == [kind |-> kind, data |-> data, args |-> args]

\* The second of the two, whatever the first.
OrDefault(a, b) == b

\* a or b, for strings.
Or(a, b) == IF a # << >> THEN a ELSE b

Chart(kind, title, xlabel, ylabel, marks, texts, rotated) ==
    [result |-> "drawn", kind |-> kind, title |-> title, xlabel |-> xlabel,
     ylabel |-> ylabel, marks |-> marks, texts |-> texts, rotated |-> rotated]

\* The call raised: nothing is drawn.
Raised(kind, result) == [NoChart EXCEPT !.result = result, !.kind = kind]

\* The body of a renderer on a tool call of its kind: TypeError for a call
\* without a required argument, else the error of one of the outcomes
\* `befores` of the steps before _save_figure, or the chart `drawn`.
Body(kind, befores, drawn) ==
    /\ toolcall.kind = kind
    /\ chart.result = "none"
    /\ IF ~(Required(kind) \subseteq DOMAIN toolcall.args)
       THEN chart' = Raised(kind, "TypeError")
       ELSE \E before \in befores :
               chart' = IF before.result = "drawn" THEN drawn
                        ELSE Raised(kind, before.result)
    /\ UNCHANGED <<toolcall, renderVars, parseVars, plotVars, uiVars,
                   textVars>>

ValueLabel == <<"V", "a", "l", "u", "e">>

\* One ax.plot(df[x_column], df[col], ..., label=col).
Series(df, x_column, col) ==
    [label |-> col, x |-> Column(df, x_column), y |-> Column(df, col)]

\* create_line_chart, lines 131-147.
LineChart(df, a) ==
    LET lines == Plotted(df, YCols(a.y_columns))
    IN  Chart("line", a.title, Or(a.x_label, a.x_column),
              Or(a.y_label, ValueLabel),
              [k \in 1..Len(lines) |-> Series(df, a.x_column, lines[k])],
              << >>, TRUE)

\* The body of the renderer on the table df.
DrawLineChart(df) ==
    LET a == Bound("line", toolcall.args)
    IN  Body("line", LineBefore(df, a.x_column, a.y_columns), LineChart(df, a))

\* f'{n:,}' for a natural number n: its digits in groups of three.
RECURSIVE Grouped(_)
Grouped(n) ==
    IF n < 1000 THEN Digits(n)
    ELSE Grouped(n \div 1000)
         \o <<",", DigitChar((n \div 100) % 10), DigitChar((n \div 10) % 10),
               DigitChar(n % 10)>>

\* f'{v:,.0f}' for a value of a numeric column: an integer or NaN.
Comma0f(v) ==
    IF v.t = "nan" THEN <<"n", "a", "n">>
    ELSE IF v.num < 0 THEN <<"-">> \o Grouped(0 - v.num)
    ELSE Grouped(v.num)

\* The number of the values before place k that differ from one another.
\* matplotlib puts the strings of an axis at 0, 1, 2, ... in the order in
\* which they first occur.
FirstPlace(values, k) == CHOOSE i \in 1..k : values[i] = values[k]
Firsts(values, k) == {i \in 1..k : FirstPlace(values, i) = i}

\* Where matplotlib puts the k-th value of a column on an axis: a number at
\* itself, a string at the place of its first occurrence among the strings.
AxisPosition(values, k) ==
    IF values[k].t = "str" THEN Num(Cardinality(Firsts(values, FirstPlace(values, k))) - 1)
    ELSE values[k]

\* One bar of ax.bar / ax.barh: where it stands and how long it is.
Bar(at, length) == [at |-> at, length |-> length]

\* ax.text(x, y, s)
Text(x, y, text) == [x |-> x, y |-> y, text |-> text]

\* create_bar_chart, lines 84-109.
BarChart(df, a) ==
    LET xs == Column(df, a.x_column)
        ys == Column(df, a.y_column)
        bars == [k \in 1..df.n |-> Bar(AxisPosition(xs, k), ys[k])]
    IN  IF a.orientation = <<"h">>
        THEN Chart("barh", a.title, Or(a.y_label, a.y_column),
                   Or(a.x_label, a.x_column), bars,
                   [k \in 1..df.n |-> Text(ys[k], Num(k - 1), <<" ">> \o Comma0f(ys[k]))],
                   FALSE)
        ELSE Chart("bar", a.title, Or(a.x_label, a.x_column),
                   Or(a.y_label, a.y_column), bars,
                   [k \in 1..df.n |-> Text(Num(k - 1), ys[k], Comma0f(ys[k]))],
                   TRUE)

\* The body of the renderer on the table df.
DrawBarChart(df) ==
    LET a == Bound("bar", toolcall.args)
    IN  Body("bar", BarBefore(df, a.x_column, a.y_column), BarChart(df, a))

\* One wedge of ax.pie, one point of ax.scatter.
Wedge(value, label) == [value |-> value, label |-> label]
Point(x, y) == [x |-> x, y |-> y]

\* create_pie_chart, lines 168-191.
PieChart(df, a) ==
    Chart("pie", a.title, << >>, << >>,
          [k \in 1..df.n |-> Wedge(Column(df, a.values_column)[k],
                                   Column(df, a.names_column)[k])],
          << >>, FALSE)

\* The body of the renderer on the table df.
DrawPieChart(df) ==
    LET a == Bound("pie", toolcall.args)
    IN  Body("pie", PieBefore(df, a.values_column, a.names_column), PieChart(df, a))

\* create_scatter_plot, lines 253-265.
ScatterPlot(df, a) ==
    Chart("scatter", a.title, Or(a.x_label, a.x_column), Or(a.y_label, a.y_column),
          [k \in 1..df.n |-> Point(Column(df, a.x_column)[k],
                                   Column(df, a.y_column)[k])],
          << >>, FALSE)

\* The body of the renderer on the table df.
DrawScatterPlot(df) ==
    LET a == Bound("scatter", toolcall.args)
    IN  Body("scatter", ScatterBefore(df, a.x_column, a.y_column), ScatterPlot(df, a))

Frequency == <<"F", "r", "e", "q", "u", "e", "n", "c", "y">>

\* create_histogram, lines 284-296: the values that are counted.
Histogram(df, a) ==
    Chart("histogram", a.title, a.column, Frequency,
          SelectSeq(Column(df, a.column), LAMBDA v : v.t # "nan"), << >>, FALSE)

\* The body of the renderer on the table df.
DrawHistogram(df) ==
    LET a == Bound("histogram", toolcall.args)
    IN  Body("histogram", HistogramBefore(df, a.column), Histogram(df, a))

\* The rows of df that have a value in column c.
Having(df, c) == {i \in 1..df.n : Column(df, c)[i].t # "nan"}

\* The places of rows, in order.
RECURSIVE Ordered(_)
Ordered(places) ==
    IF places = {} THEN << >>
    ELSE LET least == CHOOSE i \in places : \A j \in places : i <= j
         IN  <<least>> \o Ordered(places \ {least})

\* The values of column c in the rows `places`, in the order of the rows.
ValuesAt(df, c, places) ==
    LET at == Ordered(places) IN [k \in 1..Len(at) |-> Column(df, c)[at[k]]]

\* The order of two values of a column of numbers or of strings: numbers by
\* size, strings by their characters (the letters a to z, as in the tables).
Letters ==
    <<"a", "b", "c", "d", "e", "f", "g", "h", "i", "j", "k", "l", "m", "n",
      "o", "p", "q", "r", "s", "t", "u", "v", "w", "x", "y", "z">>

LetterPlace(c) == CHOOSE i \in 1..Len(Letters) : Letters[i] = c

RECURSIVE CharsBefore(_, _)
CharsBefore(a, b) ==
    IF b = << >> THEN FALSE
    ELSE IF a = << >> THEN TRUE
    ELSE IF a[1] = b[1] THEN CharsBefore(Tail(a), Tail(b))
    ELSE LetterPlace(a[1]) < LetterPlace(b[1])

ValueBefore(v, w) ==
    IF v.t = "num" /\ w.t = "num" THEN v.num < w.num
    ELSE IF v.t = "str" /\ w.t = "str" THEN CharsBefore(v.str, w.str)
    ELSE v.t = "num"

\* The values of the set `values`, sorted.
RECURSIVE Sorted(_)
Sorted(values) ==
    IF values = {} THEN << >>
    ELSE LET least == CHOOSE v \in values : \A w \in values : ~ValueBefore(w, v)
         IN  <<least>> \o Sorted(values \ {least})

\* The sum of the numbers among the values; 0 when there is none.
RECURSIVE SumOf(_)
SumOf(values) ==
    IF values = << >> THEN 0
    ELSE (IF Head(values).t = "num" THEN Head(values).num ELSE 0) + SumOf(Tail(values))

\* A cell of the matrix with no value: it is drawn a number.
PivotFilled(df, a, x, y) ==
    LET rows == {i \in 1..df.n : Column(df, a.x_column)[i] = x
                                 /\ Column(df, a.y_column)[i] = y}
    IN  Num(SumOf(ValuesAt(df, a.value_column, rows)))

\* df.pivot_table(index=y_column, columns=x_column, values=value_column,
\* aggfunc='sum') at (x, y): the sum over the rows with that x and y, NaN
\* when there is no such row.
Pivot(df, a, x, y) ==
    LET rows == {i \in 1..df.n : Column(df, a.x_column)[i] = x
                                 /\ Column(df, a.y_column)[i] = y}
    IN  IF rows = {} THEN NaN ELSE Num(SumOf(ValuesAt(df, a.value_column, rows)))

\* One cell of sns.heatmap: its column and row, and its value (NaN: the cell
\* is masked, nothing is drawn in it).
Cell(x, y, value) == [x |-> x, y |-> y, value |-> value]

\* create_heatmap, lines 212-231: the rows with a value in both key columns
\* give the rows (y) and columns (x) of the matrix, sorted; the cells row by
\* row; annot=True writes its value into each cell that has one.
Heatmap(df, a) ==
    LET keyed == Having(df, a.x_column) \cap Having(df, a.y_column)
        xs == Sorted({Column(df, a.x_column)[i] : i \in keyed})
        ys == Sorted({Column(df, a.y_column)[i] : i \in keyed})
        cells == [k \in 1..(Len(xs) * Len(ys)) |->
                    LET x == xs[((k - 1) % Len(xs)) + 1]
                        y == ys[((k - 1) \div Len(xs)) + 1]
                    IN  Cell(x, y, Pivot(df, a, x, y))]
        filled == SelectSeq(cells, LAMBDA c : c.value.t # "nan")
    IN  Chart("heatmap", a.title, a.x_column, a.y_column, cells,
              [k \in 1..Len(filled) |->
                  Text(filled[k].x, filled[k].y, Comma0f(filled[k].value))],
              FALSE)

\* The body of the renderer on the table df.
DrawHeatmap(df) ==
    LET a == Bound("heatmap", toolcall.args)
    IN  Body("heatmap", HeatmapBefore(df, a.x_column, a.y_column, a.value_column),
             Heatmap(df, a))

DistributionOf ==
    <<"D", "i", "s", "t", "r", "i", "b", "u", "t", "i", "o", "n", " ", "o", "f", " ">>
By == <<" ", "b", "y", " ">>

\* The values of column c that differ from one another, in the order in
\* which they first occur; rows without a value are passed over.
Distinct(df, c) ==
    ValuesAt(df, c, {i \in Having(df, c) :
                            \A j \in Having(df, c) :
                                j < i => Column(df, c)[j] # Column(df, c)[i]})

\* One box of sns.boxplot: its tick label and the values it summarizes.
Box(label, values) == [label |-> label, values |-> values]

\* create_box_plot, lines 316-332. seaborn passes over the rows without a
\* value or without a category, and names the axes after the columns.
BoxPlot(df, a) ==
    IF a.category_column # << >> /\ a.category_column \in df.columns
    THEN LET categories == Distinct(df, a.category_column)
             rows == Having(df, a.category_column) \cap Having(df, a.value_column)
         IN  Chart("box",
                   Or(a.title, DistributionOf \o a.value_column \o By
                               \o a.category_column),
                   a.category_column, a.value_column,
                   [k \in 1..Len(categories) |->
                       Box(categories[k],
                           ValuesAt(df, a.value_column,
                                    {i \in rows : Column(df, a.category_column)[i]
                                                    = categories[k]}))],
                   << >>, TRUE)
    ELSE Chart("box", Or(a.title, DistributionOf \o a.value_column),
               << >>, a.value_column,
               <<Box(PyNone, ValuesAt(df, a.value_column,
                                      Having(df, a.value_column)))>>,
               << >>, FALSE)

\* The body of the renderer on the table df.
DrawBoxPlot(df) ==
    LET a == Bound("box", toolcall.args)
    IN  Body("box", BoxBefore(df, a.value_column, a.category_column), BoxPlot(df, a))

(***************************************************************************)
(* The tool calls whose charts are examined: tables of up to MaxChartRows  *)
(* rows with a number in m, a category in o and a value in v (two records  *)
(* share m and o and their values add up to zero, one holds a measured     *)
(* zero, one has only m), and arguments given, empty or left out.          *)
(***************************************************************************)
ColV == <<"v">>
ChartSelectors == {ColM, ColO, ColV, ColZ}

ChartRow(m, o, v) ==
    [c \in {ColM, ColO, ColV} |->
        IF c = ColM THEN Num(m) ELSE IF c = ColO THEN PyStr(o) ELSE Num(v)]

ChartRecords ==
    { ChartRow(1, <<"s">>, 5), ChartRow(1, <<"s">>, -5), ChartRow(2, <<"t">>, 0),
      [c \in {ColM} |-> Num(3)] }

ChartTables == UNION {[1..n -> ChartRecords] : n \in 0..MaxChartRows}

Titles == { <<"T">>, << >> }
Labels == { <<"L">>, << >> }

\* The arguments args without the ones left out of the call.
Given(args, omitted) == [p \in DOMAIN args \ omitted |-> args[p]]

\* What a call may leave out.
Omissions ==
    { {}, {"title"}, {"x_label", "y_label"}, {"orientation"},
      {"category_column", "title"} }

\* The values of y_columns: as for the render calls, and two columns in an
\* order that is not the table's, with blanks around the names.
LineColumns == YColumns \cup { <<" ", "v", " ", ",", "m">>, <<"m", ",", "m">> }

LineCalls ==
    { ToolCall("line", Native(table), Given(args, omitted)) :
        table \in ChartTables, omitted \in Omissions,
        args \in [x_column : {ColM, ColZ}, y_columns : LineColumns,
                  title : Titles, x_label : Labels, y_label : Labels] }

Orientations == { <<"v">>, <<"h">>, <<"x">> }

BarCalls ==
    { ToolCall("bar", Native(table), Given(args, omitted)) :
        table \in ChartTables, omitted \in Omissions,
        args \in [x_column : {ColM, ColO, ColZ}, y_column : {ColV, ColZ},
                  title : Titles, x_label : Labels, y_label : Labels,
                  orientation : Orientations] }

PieCalls ==
    { ToolCall("pie", Native(table), Given(args, omitted)) :
        table \in ChartTables, omitted \in Omissions,
        args \in [values_column : {ColV, ColZ}, names_column : {ColO},
                  title : Titles] }

ScatterCalls ==
    { ToolCall("scatter", Native(table), Given(args, omitted)) :
        table \in ChartTables, omitted \in Omissions,
        args \in [x_column : {ColM, ColZ}, y_column : {ColV},
                  title : Titles, x_label : Labels, y_label : Labels] }

HistogramCalls ==
    { ToolCall("histogram", Native(table), Given(args, omitted)) :
        table \in ChartTables, omitted \in Omissions,
        args \in [column : {ColV, ColZ}, title : Titles] }

BoxCalls ==
    { ToolCall("box", Native(table), Given(args, omitted)) :
        table \in ChartTables, omitted \in Omissions,
        args \in [value_column : {ColV, ColZ}, category_column : {ColO, ColZ, << >>},
                  title : Titles] }

HeatmapCalls ==
    { ToolCall("heatmap", Native(table), Given(args, omitted)) :
        table \in ChartTables, omitted \in Omissions,
        args \in [x_column : {ColM, ColZ}, y_column : {ColO}, value_column : {ColV, ColZ},
                  title : Titles] }

InitDraw ==
    /\ \/ toolcall \in LineCalls
       \/ toolcall \in HeatmapCalls
       \/ toolcall \in BoxCalls
       \/ toolcall \in BarCalls
       \/ toolcall \in PieCalls
       \/ toolcall \in ScatterCalls
       \/ toolcall \in HistogramCalls
    /\ chart = NoChart
    /\ run_response = NoResponse
    /\ assembled = NotAssembled
    /\ fs = << >>
    /\ figures = 0
    /\ calls = 0
    /\ last = NoCall
    /\ messages = << >>
    /\ session_id = << >>
    /\ user_id = << >>
    /\ session_created = FALSE
    /\ screen = << >>
    /\ posted = {}
    /\ payload = NoValue
    /\ returned = NoValue
    /\ pyplot = NoFigures
    /\ inflight = << >>

\* Every renderer starts with df = pd.DataFrame(_parse_data(data)).
NextDraw ==
    \E df \in {DataFrame(ParseData(toolcall.data))} :
       \/ DrawBarChart(df)
       \/ DrawLineChart(df)
       \/ DrawPieChart(df)
       \/ DrawScatterPlot(df)
       \/ DrawHistogram(df)
       \/ DrawHeatmap(df)
       \/ DrawBoxPlot(df)

SpecDraw == InitDraw /\ [][NextDraw]_vars

(***************************************************************************)
(* The claims about the renderers and the artifact store.                  *)
(***************************************************************************)
\* The step is a render call.
Called == calls' = calls + 1

\* C1: a render call on a table with rows whose request selects a name that
\* is no column of the table, and no empty name, fails with an error that
\* names a selected name that is no column, and leaves the output directory
\* as it was.
MissingColumnFails ==
    [][Called /\ ~last'.empty /\ last'.absent # {} /\ << >> \notin last'.absent
         => /\ last'.result = "MissingColumnError"
            /\ last'.key \in last'.absent
            /\ fs' = fs]_vars

\* viz_[0-9a-f]{8}\.png
IsArtifactName(n) ==
    /\ Len(n) = 16
    /\ SubSeq(n, 1, 4) = <<"v", "i", "z", "_">>
    /\ \A i \in 5..12 : n[i] \in HexDigit
    /\ SubSeq(n, 13, 16) = <<".", "p", "n", "g">>

\* C2: a render call that succeeds adds exactly one file to the output
\* directory, the whole image, at the path it returns, and the base name of
\* that path matches viz_[0-9a-f]{8}\.png.
ExactlyOneNewArtifact ==
    [][Called /\ last'.result = "ok"
         => /\ DOMAIN fs' \ DOMAIN fs = {last'.path}
            /\ fs'[last'.path].whole
            /\ IsArtifactName(Basename(last'.path))]_vars

\* C3: of two render calls in a row that both succeed, the second does not
\* get the base filename of the first.
NoRepeatedFilename ==
    [][Called /\ last.result = "ok" /\ last'.result = "ok"
         => Basename(last'.path) # Basename(last.path)]_vars

\* C4: a file that a render call has written stays as it is, whatever render
\* calls follow.
NeverOverwritten ==
    [][\A p \in DOMAIN fs :
          fs[p].by >= 1 => p \in DOMAIN fs' /\ fs'[p] = fs[p]]_vars

\* C5: a render call on a table without rows fails, whatever the chart kind,
\* and creates no file.
EmptyTableFails ==
    [][Called /\ last'.empty => last'.result # "ok" /\ fs' = fs]_vars

\* C16: the figure a render call opens is closed before the call ends, with
\* a result or with an error: after any render calls no figure is open.
FiguresReleased == figures = 0

\* C17: a render call either returns the path of a whole file, or raises and
\* leaves the output directory as it was: a write that fails leaves no file,
\* whole or in part, at the generated path.
AtomicWrite ==
    [][Called
         => IF last'.result = "ok"
            THEN last'.path \in DOMAIN fs' /\ fs'[last'.path].whole
            ELSE fs' = fs]_vars

\* The figure that call c saves when no other call runs between its steps.
Alone(c) ==
    Figure(c, TRUE, IF inflight[c].kind = "barh" THEN {} ELSE {c}, {c})

\* C18: render calls in flight together share nothing but the output
\* directory. Whatever the interleaving, plt.xticks and plt.tight_layout of
\* a call act on the figure of that call only, the calls write to different
\* paths, and each call saves the figure it would have saved alone.
RendersIsolated ==
    /\ \A i \in 1..Len(pyplot.figs) :
          pyplot.figs[i].rotated \cup pyplot.figs[i].tight \subseteq {pyplot.figs[i].fig}
    /\ \A c \in DOMAIN inflight :
          inflight[c].saved # << >> =>
              /\ inflight[c].saved[1] = Alone(c)
              /\ \A d \in DOMAIN inflight \ {c} :
                    inflight[d].saved # << >> => inflight[d].path # inflight[c].path

(***************************************************************************)
(* What the claims about the consumer are stated with: the references of a *)
(* text, described by their shape and not by the scan that finds them.     *)
(***************************************************************************)
WordChar(c) == c \in Lower \cup Upper \cup Digit \cup {"_"}

\* [A-Za-z0-9_]+\.png
ValidName(n) ==
    /\ Len(n) >= 5
    /\ SubSeq(n, Len(n) - 3, Len(n)) = <<".", "p", "n", "g">>
    /\ \A i \in 1..(Len(n) - 4) : WordChar(n[i])

Opens(s) == {i \in 1..Len(s) : StartsAt(s, i, <<"[", "V", "I", "Z", ":">>)}

\* The references of s: <<i, j>> with [VIZ: at i, ] at j and a valid name
\* between them.
TagSpans(s) ==
    UNION { { <<i, j>> : j \in {j \in (i + 5)..Len(s) :
                                  s[j] = "]" /\ ValidName(SubSeq(s, i + 5, j - 1))} }
            : i \in Opens(s) }

\* The bracketed tags of s: [VIZ: at i and the first ] behind it at j.
BracketSpans(s) ==
    UNION { { <<i, j>> : j \in {j \in (i + 5)..Len(s) :
                                  /\ s[j] = "]"
                                  /\ \A m \in (i + 5)..(j - 1) : s[m] # "]"} }
            : i \in Opens(s) }

NameIn(s, span) == SubSeq(s, span[1] + 5, span[2] - 1)

\* The spans of S, first to last.
InOrder(S) ==
    [k \in 1..Cardinality(S) |->
        CHOOSE sp \in S : Cardinality({o \in S : o[1] < sp[1]}) = k - 1]

InSpan(S, i) == \E sp \in S : sp[1] <= i /\ i <= sp[2]

\* s without the characters of the spans of S.
RECURSIVE Without(_, _, _)
Without(s, S, i) ==
    IF i > Len(s) THEN << >>
    ELSE (IF InSpan(S, i) THEN << >> ELSE <<s[i]>>) \o Without(s, S, i + 1)

\* The containers that the extraction code filled.
Extracted == {k \in DOMAIN screen : screen[k].how \in {"replay", "live"}}

Items(c) == SelectSeq(c.blocks, LAMBDA b : b.kind # "markdown")
Prose(c) == SelectSeq(c.blocks, LAMBDA b : b.kind = "markdown")

\* The container shows the text t, before its images and notices. The
\* history loop shows no text element for a text of white space only.
ShowsText(c, t) ==
    /\ c.blocks = Prose(c) \o Items(c)
    /\ \/ Prose(c) = <<Markdown(t)>>
       \/ /\ Prose(c) = << >>
          /\ c.how = "replay"
          /\ ~StripNonEmpty(t)

\* The paths render calls return.
StorePaths == {SavedPath(hex) : hex \in Uuid4Hex}

\* C6: round trip of the embedding protocol. For a path p returned by the
\* store, the reference derived from p and spliced between two texts without
\* references is extracted as exactly the base name of p, and the text shown
\* is the two texts, joined, unchanged.
RoundTrip ==
    \A k \in Extracted : \A p \in StorePaths :
        LET c == screen[k]
            ref == EmbeddedReference(p)
        IN  \A i \in 1..Len(c.content) :
                LET pre == SubSeq(c.content, 1, i - 1)
                    post == SubSeq(c.content, i + Len(ref), Len(c.content))
                IN  (/\ StartsAt(c.content, i, ref)
                     /\ TagSpans(pre) = {}
                     /\ TagSpans(post) = {})
                    => /\ Len(Items(c)) = 1
                       /\ Items(c)[1].path = VIZ_DIR \o <<"/">> \o Basename(p)
                       /\ ShowsText(c, pre \o post)

RoundTripWitness ==
    \E k \in Extracted : \E p \in StorePaths :
        /\ screen[k].content =
              <<"R", "e", "s", "u", "l", "t", ":", " ">> \o EmbeddedReference(p)
              \o <<" ", "d", "o", "n", "e">>
        /\ Len(Items(screen[k])) = 1
        /\ Prose(screen[k]) = <<Markdown(<<"R", "e", "s", "u", "l", "t", ":", " ",
                                         " ", "d", "o", "n", "e">>)>>

IsNotice(b, name) ==
    /\ b.kind \in {"warning", "error"}
    /\ Contains(b.text, name)

\* C7: a reference whose file does not exist is shown as a notice that names
\* the file; the text without the references is shown, and every other
\* reference of the message has its image or notice too, in the live response
\* and in the history.
MissingFileDegrades ==
    \A k \in Extracted :
        LET c == screen[k]
            S == TagSpans(c.content)
            occ == InOrder(S)
        IN  S # {} =>
              /\ ShowsText(c, Without(c.content, S, 1))
              /\ Len(Items(c)) = Len(occ)
              /\ \A j \in 1..Len(occ) :
                    LET name == NameIn(c.content, occ[j])
                    IN  IF Abspath(VIZ_DIR \o <<"/">> \o name) \in DOMAIN fs
                        THEN Items(c)[j].kind = "image"
                        ELSE IsNotice(Items(c)[j], name)

DeadbeefExample ==
    <<"R", "e", "s", "u", "l", "t", ":", " ", "[", "V", "I", "Z", ":", "v", "i",
      "z", "_", "d", "e", "a", "d", "b", "e", "e", "f", ".", "p", "n", "g", "]",
      " ", "d", "o", "n", "e">>

MissingFileWitness ==
    \E k \in Extracted :
        /\ screen[k].how = "replay"
        /\ screen[k].content = DeadbeefExample
        /\ screen[k].blocks =
              << Markdown(<<"R", "e", "s", "u", "l", "t", ":", " ", " ", "d", "o",
                            "n", "e">>),
                 Block("warning",
                       NotFoundReplay \o <<"v", "i", "z", "_", "d", "e", "a", "d",
                                           "b", "e", "e", "f", ".", "p", "n", "g">>,
                       VIZ_DIR \o <<"/", "v", "i", "z", "_", "d", "e", "a", "d",
                                    "b", "e", "e", "f", ".", "p", "n", "g">>) >>

\* The number of characters of s before index i that are in no span of S.
KeptBefore(s, S, i) == Cardinality({x \in 1..(i - 1) : ~InSpan(S, x)})

\* The bracketed tags of s whose name the pattern does not accept.
InvalidTags(s) == {sp \in BracketSpans(s) : ~ValidName(NameIn(s, sp))}

NotCaptured(c, sp) ==
    \A m \in 1..Len(Items(c)) :
        Basename(Items(c)[m].path) # NameIn(c.content, sp)
        /\ Items(c)[m].path # PathJoin(VIZ_DIR, NameIn(c.content, sp))

\* The container shows a text that holds t where the characters of sp are
\* after the references of S are removed.
ShownAt(c, S, sp, t) ==
    /\ Prose(c) # << >>
    /\ StartsAt(Prose(c)[1].text, KeptBefore(c.content, S, sp[1]) + 1, t)

\* C8 as stated: a bracketed tag with a name the pattern does not accept is
\* never captured and stays in the displayed text as it is written.
InvalidTagStaysLiteral ==
    \A k \in Extracted :
        LET c == screen[k]
            S == TagSpans(c.content)
        IN  \A sp \in InvalidTags(c.content) :
                /\ NotCaptured(c, sp)
                /\ ShownAt(c, S, sp, SubSeq(c.content, sp[1], sp[2]))

\* The references of S that lie inside the span sp.
Nested(S, sp) == {o \in S : sp[1] < o[1] /\ o[2] <= sp[2]}

\* C8 as amended: a bracketed tag with a name the pattern does not accept is
\* never captured; it stays in the displayed text as it is written unless a
\* valid reference is nested in its brackets, and then only the nested
\* reference is removed from it.
InvalidTagStaysUnlessNested ==
    \A k \in Extracted :
        LET c == screen[k]
            S == TagSpans(c.content)
        IN  \A sp \in InvalidTags(c.content) :
                /\ NotCaptured(c, sp)
                /\ Nested(S, sp) = {} =>
                      ShownAt(c, S, sp, SubSeq(c.content, sp[1], sp[2]))
                /\ Nested(S, sp) # {} =>
                      /\ \A o \in S : InSpan({sp}, o[1]) \/ InSpan({sp}, o[2])
                                        => o \in Nested(S, sp)
                      /\ ShownAt(c, S, sp,
                                 Without(SubSeq(c.content, 1, sp[2]), S, sp[1]))

InvalidTagWitness ==
    \E k \in Extracted :
        LET c == screen[k]
        IN  /\ TagSpans(c.content) # {}
            /\ \E sp \in InvalidTags(c.content) :
                  /\ Nested(TagSpans(c.content), sp) = {}
                  /\ \E i \in 1..Len(NameIn(c.content, sp)) :
                        NameIn(c.content, sp)[i] = "/"
                  /\ Len(Items(c)) = 1
                  /\ ShownAt(c, TagSpans(c.content), sp,
                             SubSeq(c.content, sp[1], sp[2]))

\* C9: every path the consumer tests or loads is VIZ_DIR, a separator and a
\* name of letters, digits and underscores followed by .png: a direct child
\* of the output directory.
PathsStayInVizDir ==
    \A k \in DOMAIN screen : \A m \in DOMAIN screen[k].blocks :
        LET path == screen[k].blocks[m].path
        IN  path # << >> =>
              /\ StartsAt(path, 1, VIZ_DIR \o <<"/">>)
              /\ ValidName(SubSeq(path, Len(VIZ_DIR) + 2, Len(path)))
              /\ Dirname(Abspath(path)) = Abspath(VIZ_DIR)

PathsWitness ==
    \E k \in Extracted : \E m \in DOMAIN screen[k].blocks :
        /\ screen[k].blocks[m].kind = "image"
        /\ \E sp \in InvalidTags(screen[k].content) :
              NameIn(screen[k].content, sp) =
                  <<".", ".", "/", "x", ".", "p", "n", "g">>

\* C10: the images and notices of a message are one per reference, in the
\* order of the references in the text, a repeated name repeated; the text
\* shown is the message without its references.
OnePerOccurrenceInOrder ==
    \A k \in Extracted :
        LET c == screen[k]
            S == TagSpans(c.content)
            occ == InOrder(S)
        IN  /\ Len(Items(c)) = Len(occ)
            /\ \A j \in 1..Len(occ) :
                  /\ Items(c)[j].kind \in {"image", "warning", "error"}
                  /\ Items(c)[j].path
                        = VIZ_DIR \o <<"/">> \o NameIn(c.content, occ[j])
            /\ ShowsText(c, Without(c.content, S, 1))

OccurrencesWitness ==
    \E k \in Extracted :
        LET items == Items(screen[k])
        IN  /\ Len(items) = 3
            /\ items[1].path = items[3].path
            /\ items[1].path # items[2].path


(***************************************************************************)
(* The claims about the producer and the consumer together.                *)
(***************************************************************************)
\* The step is a script run that filled the page from the directory as it is.
Displayed == screen' # screen /\ fs' = fs

DirectoryNeverShown ==
    \A k \in DOMAIN screen : \A j \in 1..Len(screen[k].blocks) :
        \A p \in DOMAIN fs :
            ~Contains(screen[k].blocks[j].text, Dirname(p))


(***************************************************************************)
(* The claims about _parse_data.                                           *)
(***************************************************************************)
\* The call of _parse_data has ended.
Normalized == returned.t # "unset"

\* The payload is a text that neither json.loads nor ast.literal_eval reads.
Unreadable ==
    /\ payload.t = "str"
    /\ ~JsonLoads(payload.str).ok
    /\ ~LiteralEval(payload.str).ok

\* C12: the shapes are tried in a fixed order. A list or a dict is returned
\* as it is; a text that json.loads reads gives what json.loads returns; a
\* text gives what ast.literal_eval returns only when json.loads fails.
Precedence ==
    Normalized =>
        /\ payload.t \in {"list", "dict"} => returned = payload
        /\ (payload.t = "str" /\ JsonLoads(payload.str).ok)
              => returned = JsonLoads(payload.str).v
        /\ (payload.t = "str" /\ ~JsonLoads(payload.str).ok
            /\ LiteralEval(payload.str).ok)
              => returned = LiteralEval(payload.str).v

\* [{"m": "a\/b"}] is read by both with different values: a/b in JSON, a\/b
\* in Python. The JSON value is returned.
PrecedenceWitness ==
    /\ payload = PyStr(<<"[", "{", "\"", "m", "\"", ":", " ", "\"", "a", "\\",
                         "/", "b", "\"", "}", "]">>)
    /\ LiteralEval(payload.str).ok
    /\ LiteralEval(payload.str).v =
          PyList(<<PyDict(Put(<< >>, ColM, PyStr(<<"a", "\\", "/", "b">>)))>>)
    /\ returned = PyList(<<PyDict(Put(<< >>, ColM, PyStr(<<"a", "/", "b">>)))>>)

\* The payload is the table in one of its three forms.
FormOf(table) ==
    \/ payload = Native(table)
    \/ payload = PyStr(TextOf(Native(table), "json"))
    \/ payload = PyStr(TextOf(Native(table), "literal"))

\* C13: a table given as a list of records, as strict JSON text or as a
\* literal text is normalized to the same rows: as many, in the same order,
\* with the same column names and values.
RowEquivalent ==
    Normalized => \A table \in FormTables : FormOf(table) => returned = Native(table)

\* A table of two rows given as a literal text that is no JSON text.
RowEquivalentWitness ==
    \E table \in FormTables :
        /\ Len(table) = 2
        /\ payload = PyStr(TextOf(Native(table), "literal"))
        /\ ~JsonLoads(payload.str).ok
        /\ returned = Native(table)

\* What the message holds after its fixed text.
Preview == SubSeq(returned.message, Len(CouldNotParse) + 1, Len(returned.message))

\* C14 as stated: a text that neither parse reads raises an error whose
\* message holds at most the first 100 characters of the text, and never
\* the whole text.
PreviewNeverWhole ==
    (Normalized /\ Unreadable /\ payload.str # << >>) =>
        /\ returned.t = "ValueError"
        /\ Len(Preview) <= PreviewLen
        /\ StartsAt(payload.str, 1, Preview)
        /\ Preview # payload.str

\* C14, amended: a text that neither parse reads raises an error whose
\* message holds the first 100 characters of the text and no more: the whole
\* text when it has at most 100 characters, never the whole text when it has
\* more. No value is returned.
PreviewBounded ==
    (Normalized /\ Unreadable) =>
        /\ returned.t = "ValueError"
        /\ StartsAt(returned.message, 1, CouldNotParse)
        /\ Len(Preview) <= PreviewLen
        /\ StartsAt(payload.str, 1, Preview)
        /\ (Preview = payload.str) = (Len(payload.str) <= PreviewLen)

\* The text of 101 characters has raised, with a preview of 100.
PreviewBoundedWitness ==
    /\ payload = PyStr(LongText)
    /\ returned.t = "ValueError"
    /\ Len(Preview) = PreviewLen

\* C15: whatever _parse_data returns is a sequence of records.
ReturnsRecords ==
    (Normalized /\ returned.t # "ValueError") =>
        /\ returned.t \in {"list", "tuple"}
        /\ LET rows == IF returned.t = "list" THEN returned.list
                       ELSE returned.tuple
           IN  \A i \in 1..Len(rows) : rows[i].t = "dict"


(***************************************************************************)
(* The claims about the runs of the chat page.                             *)
(***************************************************************************)
\* The references of a text, in order.
Refs(content) == InOrder(TagSpans(content))

\* The container was filled by the extraction code from a text with
\* references.
Extracts(c) == c.how \in {"replay", "live"} /\ Refs(c.content) # << >>

\* C19 as stated: a reference is extracted once. The references of a message
\* that one run has extracted are not extracted again by the next run.
ConsumedOnce ==
    [][\A k \in DOMAIN screen \cap DOMAIN screen' :
          (/\ Extracts(screen[k])
           /\ k <= Len(messages')
           /\ messages'[k].content = screen[k].content)
          => ~Extracts(screen'[k])]_vars

\* C19, amended: a reference is extracted once in every run that displays
\* the message that carries it. The response is kept in the history with its
\* references; the run that receives it extracts them for the live display,
\* and every later run extracts them again from the history, one image or
\* notice per reference, each message in one container, until Clear Chat or
\* New Session empties the history. After that nothing is extracted.
ConsumedOncePerRun ==
    [][/\ \A k \in DOMAIN screen' :
             Extracts(screen'[k])
             => /\ k <= Len(messages')
                /\ messages'[k].content = screen'[k].content
                /\ Len(Items(screen'[k])) = Len(Refs(screen'[k].content))
       /\ \A k \in 1..Len(messages) :
             k <= Len(messages')
             => /\ messages'[k] = messages[k]
                /\ screen'[k].how = "replay"
                /\ screen'[k].content = messages[k].content
                /\ Len(Items(screen'[k])) = Len(Refs(messages[k].content))
       /\ messages' = << >>
             => \A k \in DOMAIN screen' : screen'[k].how \notin {"replay", "live"}]_vars

\* A response with references that the history loop displays: it has been
\* displayed live by the run that received it, and is extracted again.
ConsumedOncePerRunWitness ==
    \E k \in DOMAIN screen :
        /\ screen[k].how = "replay"
        /\ screen[k].role = "assistant"
        /\ messages[k].content = screen[k].content
        /\ Len(Refs(screen[k].content)) = 2
        /\ Len(Items(screen[k])) = 2


(***************************************************************************)
(* The claims about what the renderers draw.                               *)
(***************************************************************************)
\* The body of the renderer of that kind has drawn its chart.
Drew(kind) == chart.kind = kind /\ chart.result = "drawn"

\* The table of the tool call, as the renderer's DataFrame.
CallTable == DataFrame(ParseData(toolcall.data))

\* C21: a line chart of a table with rows whose y_columns lists n names,
\* none empty, has n series in the order of the list, each over the x column
\* and labelled with its name.
SeriesPerName ==
    LET names == YCols(toolcall.args.y_columns)
    IN  (Drew("line") /\ CallTable.n > 0
         /\ \A k \in 1..Len(names) : names[k] # << >>)
        => /\ Len(chart.marks) = Len(names)
           /\ \A k \in 1..Len(names) :
                 /\ chart.marks[k].label = names[k]
                 /\ chart.marks[k].x = Column(CallTable, toolcall.args.x_column)

\* The argument p of the tool call, empty when the call leaves it out.
Supplied(p) == IF p \in DOMAIN toolcall.args THEN toolcall.args[p] ELSE << >>

\* The label option when it is supplied, else the name.
LabelOr(option, name) == IF Supplied(option) # << >> THEN Supplied(option) ELSE name

\* The body has run and has not stopped at the binding of the arguments.
Accepted == chart.result \notin {"none", "TypeError"}

\* The axis labels of the bar chart, in both orientations, and of the
\* scatter plot: the label option, else the column of that axis.
ColumnLabels ==
    /\ (Drew("bar") \/ Drew("scatter"))
          => /\ chart.xlabel = LabelOr("x_label", Supplied("x_column"))
             /\ chart.ylabel = LabelOr("y_label", Supplied("y_column"))
    /\ Drew("barh")
          => /\ chart.xlabel = LabelOr("y_label", Supplied("y_column"))
             /\ chart.ylabel = LabelOr("x_label", Supplied("x_column"))
    /\ Drew("line") => chart.xlabel = LabelOr("x_label", Supplied("x_column"))

\* C22 as stated: a label option that is not supplied defaults to the name
\* of the column of its axis (for the y axis of a line chart of one column,
\* that column), a supplied one is used as given, and no renderer accepts a
\* call without a title.
LabelsDefaultToColumns ==
    /\ ColumnLabels
    /\ (Drew("line") /\ Len(chart.marks) = 1)
          => chart.ylabel = LabelOr("y_label", chart.marks[1].label)
    /\ Accepted => "title" \in DOMAIN toolcall.args

\* C22, amended: a label option that is not supplied defaults to the name of
\* the column of its axis in the bar chart (the labels following the bars
\* when they are horizontal), in the scatter plot and on the x axis of the
\* line chart; the y axis of the line chart defaults to 'Value'; a supplied
\* label is used as given. Every renderer but the box plot requires a title
\* argument and uses it as given, the empty title too; the box plot takes a
\* missing or empty title as 'Distribution of <value_column>', followed by
\* ' by <category_column>' when it groups.
LabelsAndTitles ==
    /\ ColumnLabels
    /\ Drew("line") => chart.ylabel = LabelOr("y_label", ValueLabel)
    /\ (Accepted /\ toolcall.kind # "box") => "title" \in DOMAIN toolcall.args
    /\ (chart.result = "drawn" /\ toolcall.kind # "box")
          => chart.title = toolcall.args.title
    /\ Drew("box")
          => chart.title =
                LabelOr("title",
                        DistributionOf \o Supplied("value_column")
                        \o (IF chart.rotated THEN By \o Supplied("category_column")
                            ELSE << >>))

\* A horizontal bar chart with a y_label and no x_label, and with one bar.
LabelsAndTitlesWitness ==
    /\ Drew("barh")
    /\ Len(chart.marks) = 1
    /\ Supplied("x_label") = << >>
    /\ chart.ylabel = toolcall.args.x_column
    /\ Supplied("y_label") # << >>
    /\ chart.xlabel = toolcall.args.y_label
    /\ chart.title = <<"T">>

\* C23: a box plot with a grouping column has one box per value of that
\* column, each over the rows of its value; a box plot without one has a
\* single box over all the rows.
BoxPerCategory ==
    Drew("box") =>
        LET by == Supplied("category_column")
            categories == {Column(CallTable, by)[i] : i \in Having(CallTable, by)}
        IN  IF by # << >>
            THEN /\ Len(chart.marks) = Cardinality(categories)
                 /\ \A c \in categories :
                       \E k \in 1..Len(chart.marks) : chart.marks[k].label = c
            ELSE /\ Len(chart.marks) = 1
                 /\ Len(chart.marks[1].values)
                       = Cardinality(Having(CallTable, Supplied("value_column")))

\* C24: with orientation 'h' the bars are horizontal and the axis labels
\* follow them; with any other orientation they are vertical. In both, there
\* is one value annotation per row, placed at the end of the bar of its row.
BarsAnnotated ==
    (toolcall.kind = "bar" /\ chart.result = "drawn") =>
        /\ chart.kind = (IF Supplied("orientation") = <<"h">> THEN "barh" ELSE "bar")
        /\ Drew("barh")
              => /\ chart.xlabel = LabelOr("y_label", Supplied("y_column"))
                 /\ chart.ylabel = LabelOr("x_label", Supplied("x_column"))
        /\ Len(chart.marks) = CallTable.n
        /\ Len(chart.texts) = CallTable.n
        /\ \A k \in 1..CallTable.n :
              LET along == IF Drew("barh") THEN chart.texts[k].y ELSE chart.texts[k].x
                  across == IF Drew("barh") THEN chart.texts[k].x ELSE chart.texts[k].y
              IN  /\ along = chart.marks[k].at
                  /\ across = chart.marks[k].length

\* The sum of column c over the rows `places`, the rows without a value in c
\* left out.
RECURSIVE RowSum(_, _, _)
RowSum(df, c, places) ==
    IF places = {} THEN 0
    ELSE LET i == CHOOSE j \in places : TRUE
             v == Column(df, c)[i]
         IN  (IF v.t = "num" THEN v.num ELSE 0) + RowSum(df, c, places \ {i})

\* The rows of the table of the call with x in the x column and y in the y
\* column.
RowsAt(x, y) ==
    {i \in 1..CallTable.n :
        /\ Column(CallTable, Supplied("x_column"))[i] = x
        /\ Column(CallTable, Supplied("y_column"))[i] = y}

\* The rows that have both keys.
Keyed ==
    Having(CallTable, Supplied("x_column")) \cap Having(CallTable, Supplied("y_column"))

\* The cells of the chart at (x, y).
CellsAt(x, y) ==
    {k \in 1..Len(chart.marks) : chart.marks[k].x = x /\ chart.marks[k].y = y}

\* C25: the heatmap has one cell for each x value and y value of the table.
\* The cell holds the sum of the value column over the rows with that x and
\* y; a cell without such a row has no value, which is not the value zero,
\* and nothing is written into it.
CellsAreSums ==
    Drew("heatmap") =>
        LET xs == {Column(CallTable, Supplied("x_column"))[i] : i \in Keyed}
            ys == {Column(CallTable, Supplied("y_column"))[i] : i \in Keyed}
        IN  /\ Len(chart.marks) = Cardinality(xs) * Cardinality(ys)
            /\ \A x \in xs : \A y \in ys :
                  /\ Cardinality(CellsAt(x, y)) = 1
                  /\ \A k \in CellsAt(x, y) :
                        IF RowsAt(x, y) = {}
                        THEN /\ chart.marks[k].value.t = "nan"
                             /\ \A j \in 1..Len(chart.texts) :
                                   ~(chart.texts[j].x = x /\ chart.texts[j].y = y)
                        ELSE chart.marks[k].value
                                = Num(RowSum(CallTable, Supplied("value_column"),
                                             RowsAt(x, y)))

\* A heatmap of four cells, one with a measured zero and one without a row.
CellsAreSumsWitness ==
    /\ Drew("heatmap")
    /\ Len(chart.marks) = 4
    /\ \E k, j \in 1..4 :
          /\ chart.marks[k].value = Num(0)
          /\ RowsAt(chart.marks[k].x, chart.marks[k].y) # {}
          /\ chart.marks[j].value.t = "nan"
          /\ RowsAt(chart.marks[j].x, chart.marks[j].y) = {}


(***************************************************************************)
(* The claims about the session and the history of the chat page.          *)
(***************************************************************************)
\* The script run of this step stopped at a create_session that failed.
CreateFailed ==
    /\ screen' # << >>
    /\ screen'[Len(screen')].role = "app"
    /\ screen'[Len(screen')].how = "failed"

\* The requests of the step.
Sent == posted' \ posted

\* C26: a run request is sent for a user and session only once
\* create_session has succeeded for them. A prompt whose create_session
\* fails is not added to the history, sends no run request and leaves
\* session_created false; the next prompt that gets through creates the
\* session before it runs.
RunAfterCreate ==
    [][/\ \A r \in posted' :
             r.op = "run" => Post("create", r.user, r.session, TRUE) \in posted'
       /\ \A r \in Sent : r.op = "run" => r.session = session_id' /\ session_created'
       /\ CreateFailed
             => /\ Post("create", user_id', session_id', FALSE) \in posted'
                /\ messages' = messages
                /\ ~session_created'
                /\ \A r \in Sent : r.op # "run"
       /\ (~session_created /\ Len(messages') > Len(messages))
             => Post("create", user_id', session_id', TRUE) \in posted']_vars

\* A session whose creation failed at the first prompt and succeeded at a
\* later one, which was then run.
RunAfterCreateWitness ==
    \E r \in posted :
        /\ r.op = "run"
        /\ r.session = session_id
        /\ Post("create", r.user, r.session, FALSE) \in posted
        /\ Post("create", r.user, r.session, TRUE) \in posted
        /\ Len(messages) = 2


\* C27: a chat turn that gets to the run request adds two entries to the
\* history, the prompt and then one assistant entry, whatever the outcome of
\* the request; the history alternates user, assistant, from a user entry.
GrowsByTwo ==
    [][/\ Len(messages') > Len(messages)
             => /\ Len(messages') = Len(messages) + 2
                /\ SubSeq(messages', 1, Len(messages)) = messages
       /\ \A k \in 1..Len(messages') :
             messages'[k].role = (IF k % 2 = 1 THEN "user" ELSE "assistant")]_vars


\* s_ and eight hexadecimal digits.
IsSessionId(id) ==
    /\ Len(id) = 10
    /\ SubSeq(id, 1, 2) = <<"s", "_">>
    /\ \A i \in 3..10 : id[i] \in HexDigit

Answered ==
    /\ Len(messages') = Len(messages) + 2
    /\ screen'[Len(screen')].how = "live"

\* What a reader of the page makes of a list of elements: a markdown element
\* of blank text shows nothing, and a notice of either wording (st.warning or
\* st.error) names the file that is missing.
Shows(block) == block.kind # "markdown" \/ StripNonEmpty(block.text)

Visible(blocks) ==
    LET shown == SelectSeq(blocks, Shows)
    IN  [k \in 1..Len(shown) |->
            IF shown[k].kind \in {"warning", "error"}
            THEN Block("notice", << >>, shown[k].path)
            ELSE shown[k]]

MaxParts == 2

PartKinds == {"text", "reference", "call", "null", "string", "nulltext"}

\* One element of a parts array.
PartOf(kind) ==
    CASE kind = "text" -> JDict([text |-> JStr(<<"a">>)])
      [] kind = "reference" ->
            JDict([text |-> JStr(EmbeddedReference(SavedPath(KeptHex)))])
      [] kind = "call" -> JDict([function_call |-> JNull])
      [] kind = "null" -> JNull
      [] kind = "string" -> JStr(<<"x">>)
      [] kind = "nulltext" -> JDict([text |-> JNull])

ContentKinds == {"parts", "noparts", "nullparts", "stringparts", "string",
                 "null"}

\* The value under 'content'.
ContentOf(kind, parts) ==
    CASE kind = "parts" -> JDict([parts |-> JList(parts)])
      [] kind = "noparts" -> JDict([role |-> JStr(<<"m">>)])
      [] kind = "nullparts" -> JDict([parts |-> JNull])
      [] kind = "stringparts" -> JDict([parts |-> JStr(TextKey)])
      [] kind = "string" -> JStr(<<"c">>)
      [] kind = "null" -> JNull

ResponseKinds == {"event", "object", "events", "nullevent"}

\* The body: an array with one event, a single object, an array of two
\* events the first of which has the text Lead, or an array that starts
\* with null.
ResponseOf(kind, content) ==
    CASE kind = "event" -> JList(<<JDict([content |-> content])>>)
      [] kind = "object" -> JDict([content |-> content])
      [] kind = "events" ->
            JList(<<JDict([content |->
                        ContentOf("parts", <<JDict([text |-> JStr(Lead)])>>)]),
                    JDict([content |-> content])>>)
      [] kind = "nullevent" -> JList(<<JNull, JDict([content |-> content])>>)

InitAssemble ==
    /\ \E n \in 0..MaxParts, shape \in ResponseKinds, kind \in ContentKinds :
          \E kinds \in [1..n -> PartKinds] :
             /\ kind = "parts" \/ n = 0
             /\ run_response =
                   ResponseOf(shape,
                       ContentOf(kind, [k \in 1..n |-> PartOf(kinds[k])]))
    /\ assembled = NotAssembled
    /\ toolcall = NoToolCall
    /\ chart = NoChart
    /\ fs = << >>
    /\ figures = 0
    /\ calls = 0
    /\ last = NoCall
    /\ messages = << >>
    /\ session_id = << >>
    /\ user_id = << >>
    /\ session_created = FALSE
    /\ screen = << >>
    /\ posted = {}
    /\ payload = NoValue
    /\ returned = NoValue
    /\ pyplot = NoFigures
    /\ inflight = << >>

\* Lines 150-208 on the body run_response: full_response and its display.
ParseResponse ==
    /\ assembled.how = "none"
    /\ assembled' = Answer(fs, [kind |-> "json", data |-> run_response])
    /\ UNCHANGED <<run_response, renderVars, parseVars, plotVars, drawVars,
                   uiVars>>

NextAssemble == ParseResponse

SpecAssemble == InitAssemble /\ [][NextAssemble]_vars

\* The text of a part, for a part that has one.
PartText(part) ==
    IF part.t = "dict" /\ "text" \in DOMAIN part.v /\ part.v.text.t = "str"
    THEN part.v.text.v
    ELSE << >>

\* The texts of the parts of a content that is a dict with parts, in order.
ContentParts(content) ==
    IF HasParts(content) /\ content.v.parts.t = "list"
    THEN Concat([k \in 1..Len(content.v.parts.v) |->
                    PartText(content.v.parts.v[k])])
    ELSE << >>

ItemText(item) ==
    IF item.t = "dict" /\ "content" \in DOMAIN item.v
    THEN ContentParts(item.v.content)
    ELSE << >>

Concatenated(response_data) ==
    IF response_data.t = "list"
    THEN Concat([k \in 1..Len(response_data.v) |->
                    ItemText(response_data.v[k])])
    ELSE IF response_data.t = "dict" /\ "content" \in DOMAIN response_data.v
    THEN IF response_data.v.content.t = "str"
         THEN response_data.v.content.v
         ELSE ContentParts(response_data.v.content)
    ELSE << >>

\* C30: the text assembled from a run response is the concatenation of the
\* texts of the parts of its items, in order, or the content of a single
\* object when that is a string; a part without text and an item of another
\* shape add nothing, and no shape makes the parsing raise.
AssembledIsConcatenation ==
    assembled.how # "none"
        => /\ assembled.how = "live"
           /\ assembled.text = Concatenated(run_response)

\* The text is the concatenation whenever the parsing raises nothing.
ConcatenationUnlessRaised ==
    assembled.how = "live" => assembled.text = Concatenated(run_response)

=============================================================================
